---------------------------- MODULE Spec2Model ----------------------------
(***************************************************************************)
(* Schild Spider: reconciliation of a school roster against target         *)
(* systems.  The module models                                             *)
(*   - adapters/schild_csv.py  load: the rows of the CSV export as records *)
(*   - core/engine.py      compute_changeset (roster-vs-manifest diff)     *)
(*   - plugins/m365.py     the Microsoft 365 plugin: manifest, account     *)
(*                         mutations, group diff and group application     *)
(*   - core/graph_client.py  the Graph REST client: token cache, retry on  *)
(*                         throttling, status mapping, paging              *)
(* Each part has its own specification; the variables a specification does *)
(* not use stay None.                                                      *)
(* Percentages are kept in tenths of a percent (333 is 33.3 %), so that    *)
(* round(x, 1) and the comparison with the threshold are integer           *)
(* arithmetic on the exact ratio.                                          *)
(***************************************************************************)
EXTENDS Integers, Sequences, FiniteSets, TLC

VARIABLES
    pc,                      \* which specification runs and where it stands
    source,                  \* engine: list[StudentRecord] handed to compute_changeset
    manifest,                \* engine: list returned by plugin.get_manifest()
    max_suspend_percentage,  \* engine: threshold handed in by the caller (tenths)
    changeset,               \* engine: the ChangeSet returned (None before the call)
    previous,                \* what the call before the latest one returned
    adapter,                 \* source adapter: rows of the CSV file, warnings issued
    config,                  \* m365: the plugin configuration (naming templates)
    all_students,            \* m365: all_students handed to compute_group_diff
    teachers,                \* m365: teachers handed to compute_group_diff
    users,                   \* m365 target: the directory's user objects
    groups,                  \* m365 target: the directory's groups with members
    plugin,                  \* m365: attributes of the M365Plugin instance
    changes,                 \* m365: list of group changes (diff output / apply input)
    results,                 \* m365: list of results returned by an apply call
    log,                     \* m365: requests sent to the target, in order
    frame,                   \* m365: locals of the apply call in progress
    client,                  \* graph client: _token and _token_expires
    server,                  \* graph client: what the Graph service holds for the call
    now,                     \* graph client: time.time(), in seconds
    window,                  \* gui: MainWindow's fields, cards and message boxes
    thread,                  \* gui: the QThread of _worker_thread and its worker
    events,                  \* gui: slot calls queued for the main thread
    calls                    \* gui: plugin methods called, in order

engineVars == <<source, manifest, max_suspend_percentage, changeset, previous,
               adapter>>

m365Vars == <<config, all_students, teachers, users, groups, plugin, changes,
              results, log, frame>>

clientVars == <<client, server, now>>

guiVars == <<window, thread, events, calls>>

vars == <<pc, engineVars, m365Vars, clientVars, guiVars>>

None == "None"

\* What the variables of a part hold in a specification that does not use it.
EngineUnused ==
    /\ source = None
    /\ manifest = None
    /\ max_suspend_percentage = None
    /\ changeset = None
    /\ adapter = None
    /\ previous = None

ClientUnused ==
    /\ client = None
    /\ server = None
    /\ now = None

GuiUnused ==
    /\ window = None
    /\ thread = None
    /\ events = None
    /\ calls = None

M365Unused ==
    /\ config = None
    /\ all_students = None
    /\ teachers = None
    /\ users = None
    /\ groups = None
    /\ plugin = None
    /\ changes = None
    /\ results = None
    /\ log = None
    /\ frame = None

(***************************************************************************)
(* Bounds of the model.                                                    *)
(***************************************************************************)
MaxSource == 3      \* longest source roster
MaxManifest == 3    \* longest manifest

(***************************************************************************)
(* Python helpers.                                                         *)
(***************************************************************************)
Range(s) == {s[i] : i \in 1..Len(s)}

\* A dict as the sequence of its items in insertion order: d[k] = v keeps the
\* place of a key that is already there and appends a new one.
DictSet(d, k, v) ==
    IF \E i \in 1..Len(d) : d[i].key = k
    THEN [i \in 1..Len(d) |-> IF d[i].key = k THEN [key |-> k, val |-> v] ELSE d[i]]
    ELSE Append(d, [key |-> k, val |-> v])

DictKeys(d) == {d[i].key : i \in 1..Len(d)}

DictGet(d, k) == (CHOOSE i \in 1..Len(d) : d[i].key = k)

\* {s["school_internal_id"]: s for s in seq}
RECURSIVE DictById(_)
DictById(seq) ==
    IF seq = <<>> THEN <<>>
    ELSE LET rest == DictById(SubSeq(seq, 1, Len(seq) - 1))
             last == seq[Len(seq)]
         IN  DictSet(rest, last.school_internal_id, last)

\* round(n / d, 0) for n >= 0, d > 0, as Python rounds: to nearest, ties to even.
RoundHalfEven(n, d) ==
    LET q == n \div d
        r == n % d
    IN  IF 2 * r < d THEN q
        ELSE IF 2 * r > d THEN q + 1
        ELSE IF q % 2 = 0 THEN q ELSE q + 1

(***************************************************************************)
(* Strings.  str.lower() on the strings of the model.                      *)
(***************************************************************************)
Lower(s) ==
    CASE s = "Ann" -> "ann"
      [] s = "ANN" -> "ann"
      [] s = "Bo"  -> "bo"
      [] s = "Lee" -> "lee"
      [] s = "5A"  -> "5a"
      [] s = "A@d" -> "a@d"
      [] s = "KIM" -> "kim"
      [] s = "Kim" -> "kim"
      [] s = "Kim@d" -> "kim@d"
      [] OTHER     -> s

\* str.strip() on the strings of the model.
Strip(s) ==
    CASE s = " "    -> ""
      [] s = "Kim " -> "Kim"
      [] s = "A "   -> "A"
      [] OTHER      -> s

(***************************************************************************)
(* plugins/m365.py  compute_data_hash: sha256 over the lower-cased         *)
(* first name, last name, class and email joined by "|".  The digest is    *)
(* kept as the tuple of the joined parts (sha256 taken as injective).      *)
(***************************************************************************)
compute_data_hash(student) ==
    <<Lower(student.first_name), Lower(student.last_name),
      Lower(student.class_name), Lower(student.email)>>

\* plugins/hagen_id.py compute_photo_hash: None when the file does not exist,
\* else the sha256 digest of its content (taken as injective).  The files are
\* those the source adapter found the photo in.
compute_photo_hash(photo_path) ==
    IF photo_path \in DOMAIN adapter.files
    THEN "sha256:" \o adapter.files[photo_path]
    ELSE None

\* The digest is never looked at: a photo update whenever there is a photo.
compute_photo_hash_if_available_Always(photo_path) == "sha256:"

\* hasattr(plugin, "compute_photo_hash"): of the plugins of the repository
\* only HagenIdPlugin defines the method; for the others the answer is None.
compute_photo_hash_if_available(photo_path) ==
    IF "compute_photo_hash" \in DOMAIN plugin
    THEN compute_photo_hash(photo_path)
    ELSE None

(***************************************************************************)
(* core/engine.py  compute_changeset.                                      *)
(* `src` is the source list, `man` the list plugin.get_manifest() returns, *)
(* `max` the threshold in tenths of a percent.                             *)
(***************************************************************************)
source_map(src) == DictById(src)

target_map(man) == DictById(man)

\* lines 35-45: the id is absent from the manifest.
IsNew_OnEmptyTarget(tmap, sid) == tmap = <<>>

IsNew(tmap, sid) == sid \notin DictKeys(tmap)

\* The hash compared without the `continue` of line 41: an absent entry reads "".
IsChanged_NoContinue(tmap, student) ==
    compute_data_hash(student)
      # (IF student.school_internal_id \in DictKeys(tmap)
         THEN tmap[DictGet(tmap, student.school_internal_id)].val.data_hash
         ELSE "")

\* The manifest entry read under a key it does not carry: .get() gives "".
IsChanged_WrongKey(tmap, student) ==
    /\ student.school_internal_id \in DictKeys(tmap)
    /\ compute_data_hash(student) # ""

\* lines 43-45: reached only for an id that is in the manifest.
IsChanged(tmap, student) ==
    /\ student.school_internal_id \in DictKeys(tmap)
    /\ compute_data_hash(student)
         # tmap[DictGet(tmap, student.school_internal_id)].val.data_hash

\* lines 47-54
IsPhotoUpdate(tmap, student) ==
    /\ student.school_internal_id \in DictKeys(tmap)
    /\ student.photo_path # None
    /\ student.photo_path # ""
    /\ LET local_photo_hash == compute_photo_hash_if_available(student.photo_path)
           remote_photo_hash ==
               tmap[DictGet(tmap, student.school_internal_id)].val.photo_hash
       IN  /\ local_photo_hash # None
           /\ local_photo_hash # ""
           /\ local_photo_hash # remote_photo_hash

\* lines 56-59
IsSuspended_IgnoreActive(smap, entry) ==
    entry.school_internal_id \notin DictKeys(smap)

IsSuspended(smap, entry) ==
    /\ entry.school_internal_id \notin DictKeys(smap)
    /\ entry.is_active

Values(d) == [i \in 1..Len(d) |-> d[i].val]

\* The comparison made on the rounded percentage.
requires_force_of_Rounded(n_suspended, total_in_target, max) ==
    (IF total_in_target > 0
     THEN RoundHalfEven(1000 * n_suspended, total_in_target)
     ELSE 0) > max

\* lines 61-66: suspend_pct > max_suspend_percentage on the unrounded ratio.
requires_force_of(n_suspended, total_in_target, max) ==
    IF total_in_target > 0
    THEN 1000 * n_suspended > max * total_in_target
    ELSE 0 > max

\* The percentage cut to one decimal instead of rounded.
suspend_percentage_of_Truncated(n_suspended, total_in_target) ==
    IF total_in_target > 0 THEN (1000 * n_suspended) \div total_in_target ELSE 0

\* line 75: round(suspend_pct, 1), in tenths.
suspend_percentage_of(n_suspended, total_in_target) ==
    IF total_in_target > 0
    THEN RoundHalfEven(1000 * n_suspended, total_in_target)
    ELSE 0

compute_changeset(src, man, max) ==
    LET smap == source_map(src)
        tmap == target_map(man)
        students == Values(smap)
        targets == Values(tmap)
        IsNewS(s) == IsNew(tmap, s.school_internal_id)
        IsChangedS(s) == IsChanged(tmap, s)
        IsPhotoS(s) == IsPhotoUpdate(tmap, s)
        IsSuspendedT(t) == IsSuspended(smap, t)
        suspendedT == SelectSeq(targets, IsSuspendedT)
        suspended == [i \in 1..Len(suspendedT) |-> suspendedT[i].school_internal_id]
    IN  [new |-> SelectSeq(students, IsNewS),
         changed |-> SelectSeq(students, IsChangedS),
         suspended |-> suspended,
         photo_updates |-> SelectSeq(students, IsPhotoS),
         total_in_source |-> Len(smap),
         total_in_target |-> Len(tmap),
         suspend_percentage |-> suspend_percentage_of(Len(suspended), Len(tmap)),
         requires_force |-> requires_force_of(Len(suspended), Len(tmap), max)]

(***************************************************************************)
(* Inputs of the engine specification.                                     *)
(***************************************************************************)
Ids == {"A", "B", "C", "D"}

IdOrder == <<"A", "B", "C", "D">>

FirstNames == {"Ann", "Bo"}

StudentRecord(sid, first_name) ==
    [school_internal_id |-> sid, first_name |-> first_name, last_name |-> "Lee",
     class_name |-> "5a", email |-> "a@d", photo_path |-> None]

Students == {StudentRecord(sid, fn) : sid \in Ids, fn \in FirstNames}

ManifestEntries ==
    {[school_internal_id |-> sid, data_hash |-> compute_data_hash(StudentRecord(sid, fn)),
      is_active |-> a, photo_hash |-> ""] : sid \in Ids, fn \in FirstNames, a \in BOOLEAN}

SeqsUpTo(S, n) == UNION {[1..k -> S] : k \in 0..n}

IdsOf(seq) == {seq[i].school_internal_id : i \in 1..Len(seq)}

\* The engine uses ids only as dictionary keys, so a roster is taken up to the
\* renaming of its ids: the k-th distinct id of a roster is the k-th of IdOrder.
\* Repeated ids (a roster listing a student twice) stay.
FirstUse(seq) ==
    \A i \in 1..Len(seq) :
        LET before == {seq[j].school_internal_id : j \in 1..(i - 1)}
        IN  \/ seq[i].school_internal_id \in before
            \/ seq[i].school_internal_id = IdOrder[Cardinality(before) + 1]

Sources == {s \in SeqsUpTo(Students, MaxSource) : FirstUse(s)}

\* A manifest lists each identity once; the listing is taken in the order of
\* IdOrder (the engine reads it into a dictionary keyed by id).
Position(sid) == CHOOSE k \in 1..Len(IdOrder) : IdOrder[k] = sid

Listed(seq) ==
    \A i, j \in 1..Len(seq) :
        i < j => Position(seq[i].school_internal_id) < Position(seq[j].school_internal_id)

Manifests == {m \in SeqsUpTo(ManifestEntries, MaxManifest) : Listed(m)}

\* Thresholds in tenths of a percent: 0 %, the default 15 %, 33.3 %, 50 %.
Thresholds == {0, 150, 333, 500}

(***************************************************************************)
(* EngineSpec: compute_changeset called on any roster, manifest and        *)
(* threshold, and called a second time on the same inputs.                 *)
(***************************************************************************)
EngineInit ==
    /\ pc = "ready"
    /\ source \in Sources
    /\ manifest \in Manifests
    /\ max_suspend_percentage \in Thresholds
    /\ changeset = None
    /\ adapter = None
    /\ previous = None
    /\ M365Unused
    /\ ClientUnused
    /\ GuiUnused

ComputeChangeset ==
    /\ pc \in {"ready", "computed"}
    /\ changeset' = compute_changeset(source, manifest, max_suspend_percentage)
    /\ previous' = changeset
    /\ pc' = IF pc = "ready" THEN "computed" ELSE "recomputed"
    /\ UNCHANGED <<adapter, source, manifest, max_suspend_percentage>>
    /\ UNCHANGED m365Vars
    /\ UNCHANGED <<clientVars, guiVars>>

EngineNext == ComputeChangeset

EngineSpec == EngineInit /\ [][EngineNext]_vars

(***************************************************************************)
(* Claims about compute_changeset, checked under EngineSpec.               *)
(***************************************************************************)
Computed == pc \in {"computed", "recomputed"}

ManifestIds == IdsOf(manifest)

SourceIds == IdsOf(source)

\* The record of the roster that counts for an id: the last one listing it.
LastOf(sid) ==
    source[CHOOSE i \in 1..Len(source) :
              /\ source[i].school_internal_id = sid
              /\ \A j \in (i + 1)..Len(source) : source[j].school_internal_id # sid]

EntryOf(sid) ==
    CHOOSE m \in Range(manifest) : m.school_internal_id = sid

\* C1: no school_internal_id is both in `new` and in `changed` of the ChangeSet
\* compute_changeset returns, for every roster and manifest.
C1_NewChangedDisjoint ==
    Computed => IdsOf(changeset.new) \cap IdsOf(changeset.changed) = {}

\* A roster with a new student and a changed student, one of them listed twice.
C1_Witness ==
    /\ Computed
    /\ changeset.new # <<>>
    /\ changeset.changed # <<>>
    /\ Len(source) > Cardinality(SourceIds)

\* C2: `suspended` is exactly the set of manifest ids that are absent from the
\* roster and whose manifest entry is active.
C2_SuspendedExact ==
    Computed =>
        /\ Range(changeset.suspended)
             = {m.school_internal_id : m \in {e \in Range(manifest) :
                    e.school_internal_id \notin SourceIds /\ e.is_active}}
        /\ Len(changeset.suspended) = Cardinality(Range(changeset.suspended))

\* The manifest holds an active and an inactive identity that left the roster,
\* and one that is still in the roster.
C2_Witness ==
    /\ Computed
    /\ changeset.suspended # <<>>
    /\ \E e \in Range(manifest) : e.school_internal_id \notin SourceIds /\ ~e.is_active
    /\ \E e \in Range(manifest) : e.school_internal_id \in SourceIds /\ e.is_active

\* The roster {A, B, C} against the manifest {A same hash, B other hash, D active}.
Scenario ==
    /\ source = <<StudentRecord("A", "Ann"), StudentRecord("B", "Ann"),
                  StudentRecord("C", "Ann")>>
    /\ Len(manifest) = 3
    /\ manifest[1].school_internal_id = "A"
    /\ manifest[1].data_hash = <<"ann", "lee", "5a", "a@d">>
    /\ manifest[2].school_internal_id = "B"
    /\ manifest[2].data_hash = <<"bo", "lee", "5a", "a@d">>
    /\ manifest[3].school_internal_id = "D"
    /\ manifest[3].is_active

\* C3: a source record is in `new` iff its id is absent from the manifest, in
\* `changed` iff its id is present and its hash differs from the entry's
\* data_hash, in neither iff the hashes are equal; the roster {A, B, C} against
\* {A same, B different, D active} gives new=[C], changed=[B], suspended=[D],
\* total_in_source=3, total_in_target=3, suspend_percentage=33.3.
C3_Classification ==
    Computed =>
        /\ \A sid \in SourceIds :
              /\ sid \in IdsOf(changeset.new) <=> sid \notin ManifestIds
              /\ sid \in IdsOf(changeset.changed) <=>
                    /\ sid \in ManifestIds
                    /\ <<Lower(LastOf(sid).first_name), Lower(LastOf(sid).last_name),
                         Lower(LastOf(sid).class_name), Lower(LastOf(sid).email)>>
                         # EntryOf(sid).data_hash
        /\ IdsOf(changeset.new) \cup IdsOf(changeset.changed) \subseteq SourceIds
        /\ \A i \in 1..Len(changeset.new) :
              changeset.new[i] = LastOf(changeset.new[i].school_internal_id)
        /\ \A i \in 1..Len(changeset.changed) :
              changeset.changed[i] = LastOf(changeset.changed[i].school_internal_id)
        /\ Scenario =>
              /\ changeset.new = <<StudentRecord("C", "Ann")>>
              /\ changeset.changed = <<StudentRecord("B", "Ann")>>
              /\ changeset.suspended = <<"D">>
              /\ changeset.total_in_source = 3
              /\ changeset.total_in_target = 3
              /\ changeset.suspend_percentage = 333

C3_Witness == Computed /\ Scenario

\* C4 as claimed: requires_force is true exactly when the reported (rounded)
\* suspend_percentage is greater than the threshold.
C4_ForceIffReportedAbove ==
    Computed =>
        (changeset.requires_force <=> changeset.suspend_percentage > max_suspend_percentage)

\* C4 as amended: requires_force is true exactly when the unrounded ratio
\* len(suspended) / total_in_target * 100 is greater than the threshold.
C4_ForceIffRatioAbove ==
    Computed =>
        (changeset.requires_force <=>
            /\ changeset.total_in_target > 0
            /\ 1000 * Len(changeset.suspended)
                 > max_suspend_percentage * changeset.total_in_target)

\* One of three suspended at a threshold of 33.3: the ratio rounds down onto it.
C4_Witness ==
    /\ Computed
    /\ changeset.requires_force
    /\ changeset.suspend_percentage = max_suspend_percentage

\* C5: suspend_percentage = round(len(suspended) / total_in_target * 100, 1)
\* with total_in_target the number of manifest entries, active or not; with an
\* empty manifest it is 0.0 and requires_force is false.
C5_SuspendPercentage ==
    Computed =>
        LET n == Cardinality({e \in Range(manifest) :
                     e.school_internal_id \notin SourceIds /\ e.is_active})
            total == Len(manifest)
            v == changeset.suspend_percentage
            \* twice the distance of v from the exact ratio, times total
            off == IF 2 * v * total >= 2000 * n
                   THEN 2 * v * total - 2000 * n ELSE 2000 * n - 2 * v * total
        IN  /\ changeset.total_in_target = total
            /\ Len(changeset.suspended) = n
            /\ total > 0 => (off < total \/ (off = total /\ v % 2 = 0))
            /\ total = 0 => v = 0 /\ ~changeset.requires_force

\* Two of three manifest entries suspended (66.67 rounds up to 66.7), one of the
\* three inactive.
C5_Witness ==
    /\ Computed
    /\ changeset.total_in_target = 3
    /\ changeset.suspend_percentage = 667
    /\ \E e \in Range(manifest) : ~e.is_active

\* The manifest holds exactly the roster's ids, each with the hash of its record.
InSync ==
    /\ ManifestIds = SourceIds
    /\ \A sid \in SourceIds :
          EntryOf(sid).data_hash
            = <<Lower(LastOf(sid).first_name), Lower(LastOf(sid).last_name),
                Lower(LastOf(sid).class_name), Lower(LastOf(sid).email)>>

\* C7: when the manifest holds exactly the roster's ids with equal hashes,
\* compute_changeset returns empty new, changed and suspended, and so does a
\* second call on the unchanged roster and manifest.
C7_DiffIdempotent ==
    (Computed /\ InSync) =>
        /\ changeset.new = <<>>
        /\ changeset.changed = <<>>
        /\ changeset.suspended = <<>>
        /\ pc = "recomputed" =>
              /\ previous.new = <<>>
              /\ previous.changed = <<>>
              /\ previous.suspended = <<>>

C7_Witness ==
    /\ pc = "recomputed"
    /\ InSync
    /\ Cardinality(SourceIds) >= 2
    /\ \E e \in Range(manifest) : ~e.is_active

(***************************************************************************)
(* plugins/m365.py  group naming.  A naming template is kept as the text   *)
(* before and the text after its "{k}" placeholder; a display name is the  *)
(* triple <<text before, class part, text after>>.  The class parts of the *)
(* model never begin or end with a template text, so two display names are *)
(* the same string exactly when their triples are equal.                   *)
(***************************************************************************)
Template(prefix, suffix) == [prefix |-> prefix, suffix |-> suffix]

\* _extract_template_parts: (text before "{k}", text after "{k}").
extract_template_parts(template) == <<template.prefix, template.suffix>>

\* _sanitize_nickname: lower-case, then drop every character outside
\* a-z 0-9 _ - (the class names of the model hold letters and digits only).
sanitize_nickname(text) == Lower(text)

\* template.replace("{k}", _sanitize_nickname(class_name))
group_name_of(template, class_name) ==
    <<template.prefix, sanitize_nickname(class_name), template.suffix>>

LowerName(display_name) ==
    <<Lower(display_name[1]), Lower(display_name[2]), Lower(display_name[3])>>

\* self._group_sus_template if group_type == "sus" else self._group_kuk_template
template_for(cfg, group_type) ==
    IF group_type = "sus" THEN cfg.group_sus_template ELSE cfg.group_kuk_template

cache_for(p, group_type) ==
    IF group_type = "sus" THEN p.sus_cache ELSE p.kuk_cache

with_cache(p, group_type, cache) ==
    IF group_type = "sus"
    THEN [p EXCEPT !.sus_cache = cache]
    ELSE [p EXCEPT !.kuk_cache = cache]

\* f"{template}|{class_name}"
cache_key(template, class_name) == <<template, class_name>>

\* dict.get(key): the value, None for a key that is not there.
Lookup(d, key) == IF key \in DOMAIN d THEN d[key] ELSE None

(***************************************************************************)
(* core/graph_client.py  the requests of the group diff, answered from the *)
(* directory (users, groups).  Graph compares displayName without regard   *)
(* to case, in startsWith as in eq.                                        *)
(***************************************************************************)
list_users(directory) == directory

list_groups(grps, prefix) ==
    LET Starts(g) == Lower(g.displayName[1]) = Lower(prefix)
    IN  SelectSeq(grps, Starts)

list_all_groups(grps) == grps

\* The result is optional: <<>> stands for None, <<g>> for the group found.
find_group_by_name(grps, display_name) ==
    LET Same(g) == LowerName(g.displayName) = LowerName(display_name)
        matches == SelectSeq(grps, Same)
    IN  IF matches = <<>> THEN <<>> ELSE <<matches[1]>>

get_members(grps, group_id) ==
    LET g == CHOOSE x \in Range(grps) : x.id = group_id
    IN  g.members

(***************************************************************************)
(* plugins/m365.py  _build_lookups: employeeId -> id and lower-cased UPN   *)
(* -> id over the cached user list; a later user overwrites an earlier one *)
(* with the same key.                                                      *)
(***************************************************************************)
eid_to_uid(all_users) ==
    LET keys == {all_users[i].employeeId : i \in 1..Len(all_users)} \ {""}
        last(k) == CHOOSE i \in 1..Len(all_users) :
                       /\ all_users[i].employeeId = k
                       /\ \A j \in (i+1)..Len(all_users) : all_users[j].employeeId # k
    IN  [k \in keys |-> all_users[last(k)].id]

upn_to_uid(all_users) ==
    LET upn(i) == Lower(all_users[i].userPrincipalName)
        keys == {upn(i) : i \in 1..Len(all_users)} \ {""}
        last(k) == CHOOSE i \in 1..Len(all_users) :
                       /\ upn(i) = k
                       /\ \A j \in (i+1)..Len(all_users) : upn(j) # k
    IN  [k \in keys |-> all_users[last(k)].id]

uid_to_name(all_users) ==
    LET ids == {all_users[i].id : i \in 1..Len(all_users)}
        last(k) == CHOOSE i \in 1..Len(all_users) :
                       /\ all_users[i].id = k
                       /\ \A j \in (i+1)..Len(all_users) : all_users[j].id # k
    IN  [k \in ids |-> IF all_users[last(k)].displayName # ""
                       THEN all_users[last(k)].displayName
                       ELSE all_users[last(k)].surname]

(***************************************************************************)
(* plugins/m365.py  compute_group_diff, teacher matching: last name ->     *)
(* email over the teachers with a job title, a last name and an email; the *)
(* first teacher of a name wins.                                           *)
(***************************************************************************)
teacher_name_to_email(tchs) ==
    LET name(i) == Lower(Strip(tchs[i].last_name))
        email(i) == Lower(Strip(tchs[i].email))
        counts(i) == /\ Strip(tchs[i].job_title) # ""
                     /\ name(i) # ""
                     /\ email(i) # ""
        keys == {name(i) : i \in {j \in 1..Len(tchs) : counts(j)}}
        first(k) == CHOOSE i \in 1..Len(tchs) :
                        /\ counts(i) /\ name(i) = k
                        /\ \A j \in 1..(i-1) : ~(counts(j) /\ name(j) = k)
    IN  [k \in keys |-> email(first(k))]

\* classes: the students of each non-empty class_name, in roster order.
class_names_of(studs) == {studs[i].class_name : i \in 1..Len(studs)} \ {""}

students_of_class(studs, class_name) ==
    LET InClass(s) == s.class_name = class_name
    IN  SelectSeq(studs, InClass)

(***************************************************************************)
(* plugins/m365.py  _bulk_load_groups: one listing per template prefix, or *)
(* one full listing filtered by suffix, or nothing when neither template   *)
(* has a prefix or a suffix; then the caches are filled for the classes    *)
(* whose group name is among the loaded names.                             *)
(***************************************************************************)
bulk_loaded_groups(cfg, grps) ==
    LET sus_prefix == extract_template_parts(cfg.group_sus_template)[1]
        sus_suffix == extract_template_parts(cfg.group_sus_template)[2]
        kuk_prefix == extract_template_parts(cfg.group_kuk_template)[1]
        kuk_suffix == extract_template_parts(cfg.group_kuk_template)[2]
        Keep(g) ==
            \/ sus_suffix # "" /\ Lower(g.displayName[3]) = Lower(sus_suffix)
            \/ kuk_suffix # "" /\ Lower(g.displayName[3]) = Lower(kuk_suffix)
    IN  IF sus_prefix # "" \/ kuk_prefix # ""
        THEN (IF sus_prefix # "" THEN list_groups(grps, sus_prefix) ELSE <<>>)
             \o (IF kuk_prefix # "" /\ kuk_prefix # sus_prefix
                 THEN list_groups(grps, kuk_prefix) ELSE <<>>)
        ELSE SelectSeq(list_all_groups(grps), Keep)

bulk_load_requests(cfg) ==
    LET sus_prefix == extract_template_parts(cfg.group_sus_template)[1]
        sus_suffix == extract_template_parts(cfg.group_sus_template)[2]
        kuk_prefix == extract_template_parts(cfg.group_kuk_template)[1]
        kuk_suffix == extract_template_parts(cfg.group_kuk_template)[2]
    IN  IF sus_prefix # "" \/ kuk_prefix # ""
        THEN (IF sus_prefix # "" THEN <<<<"list_groups", sus_prefix>>>> ELSE <<>>)
             \o (IF kuk_prefix # "" /\ kuk_prefix # sus_prefix
                 THEN <<<<"list_groups", kuk_prefix>>>> ELSE <<>>)
        ELSE IF sus_suffix # "" \/ kuk_suffix # ""
             THEN <<<<"list_all_groups">>>>
             ELSE <<>>

name_to_id(all_groups) ==
    LET dn(i) == LowerName(all_groups[i].displayName)
        keys == {dn(i) : i \in 1..Len(all_groups)}
        last(k) == CHOOSE i \in 1..Len(all_groups) :
                       /\ dn(i) = k
                       /\ \A j \in (i+1)..Len(all_groups) : dn(j) # k
    IN  [k \in keys |-> all_groups[last(k)].id]

\* The cache after the bulk load wrote the hits for one template.
prefilled(cache, template, class_names, names) ==
    LET hit(c) == LowerName(group_name_of(template, c)) \in DOMAIN names
        hits == {cache_key(template, c) : c \in {x \in class_names : hit(x)}}
    IN  [k \in (DOMAIN cache) \cup hits |->
            IF k \in hits
            THEN names[LowerName(group_name_of(template, k[2]))]
            ELSE cache[k]]

bulk_load_groups(p, cfg, grps, class_names) ==
    LET parts == extract_template_parts(cfg.group_sus_template)
                 \o extract_template_parts(cfg.group_kuk_template)
        names == name_to_id(bulk_loaded_groups(cfg, grps))
    IN  IF \A i \in 1..4 : parts[i] = ""
        THEN [p EXCEPT !.groups_bulk_loaded = FALSE]
        ELSE [p EXCEPT
                !.sus_cache = prefilled(p.sus_cache, cfg.group_sus_template,
                                        class_names, names),
                !.kuk_cache = prefilled(p.kuk_cache, cfg.group_kuk_template,
                                        class_names, names),
                !.groups_bulk_loaded = TRUE]

(***************************************************************************)
(* plugins/m365.py  _find_group: the cached id; after a bulk load a miss   *)
(* counts as "does not exist"; without one the group is looked up by name. *)
(* Yields the id (None when there is none), is_new, the requests sent and  *)
(* the cache afterwards.                                                   *)
(***************************************************************************)
\* _groups_bulk_loaded is not looked at: every cache miss is looked up.
find_group_AlwaysLooksUp(class_name, template, cache, groups_bulk_loaded, grps) ==
    LET key == cache_key(template, class_name)
        display_name == group_name_of(template, class_name)
        found == find_group_by_name(grps, display_name)
    IN  IF class_name = ""
        THEN [group_id |-> None, is_new |-> FALSE, requests |-> <<>>, cache |-> cache]
        ELSE IF key \in DOMAIN cache
        THEN [group_id |-> cache[key], is_new |-> FALSE, requests |-> <<>>,
              cache |-> cache]
        ELSE IF found # <<>>
        THEN [group_id |-> found[1].id, is_new |-> FALSE,
              requests |-> <<<<"find_group_by_name", display_name>>>>,
              cache |-> (key :> found[1].id) @@ cache]
        ELSE [group_id |-> None, is_new |-> TRUE,
              requests |-> <<<<"find_group_by_name", display_name>>>>,
              cache |-> cache]

find_group(class_name, template, cache, groups_bulk_loaded, grps) ==
    LET key == cache_key(template, class_name)
        display_name == group_name_of(template, class_name)
        found == find_group_by_name(grps, display_name)
    IN  IF class_name = ""
        THEN [group_id |-> None, is_new |-> FALSE, requests |-> <<>>, cache |-> cache]
        ELSE IF key \in DOMAIN cache
        THEN [group_id |-> cache[key], is_new |-> FALSE, requests |-> <<>>,
              cache |-> cache]
        ELSE IF groups_bulk_loaded
        THEN [group_id |-> None, is_new |-> TRUE, requests |-> <<>>, cache |-> cache]
        ELSE IF found # <<>>
        THEN [group_id |-> found[1].id, is_new |-> FALSE,
              requests |-> <<<<"find_group_by_name", display_name>>>>,
              cache |-> (key :> found[1].id) @@ cache]
        ELSE [group_id |-> None, is_new |-> TRUE,
              requests |-> <<<<"find_group_by_name", display_name>>>>,
              cache |-> cache]

(***************************************************************************)
(* plugins/m365.py  _diff_class_sus / _diff_class_kuk: the planned changes *)
(* of one class group.                                                     *)
(***************************************************************************)
UidOrder == <<"u1", "u2", "u3", "u4">>

ClassOrder == <<"5A", "6b">>

\* sorted(set of user ids)
SortedUids(S) ==
    LET In(u) == u \in S
    IN  SelectSeq(UidOrder, In)

\* sorted(classes.items()): the class names in ascending order
SortedClasses(S) ==
    LET In(c) == c \in S
    IN  SelectSeq(ClassOrder, In)

create_group_change(group_type, class_name, group_name) ==
    [id |-> group_type \o ":" \o class_name \o ":create",
     group_type |-> group_type,
     group_name |-> group_name,
     group_id |-> "",
     action |-> "create_group",
     member_name |-> "",
     member_id |-> "",
     class_name |-> class_name]

\* The id leaves the class out.
member_change_NoClass(group_type, class_name, group_name, group_id, action, tag, uid, names) ==
    [id |-> group_type \o ":" \o tag \o ":" \o uid,
     group_type |-> group_type,
     group_name |-> group_name,
     group_id |-> IF group_id = None THEN "" ELSE group_id,
     action |-> action,
     member_name |-> IF uid \in DOMAIN names THEN names[uid] ELSE uid,
     member_id |-> uid,
     class_name |-> class_name]

member_change(group_type, class_name, group_name, group_id, action, tag, uid, names) ==
    [id |-> group_type \o ":" \o class_name \o ":" \o tag \o ":" \o uid,
     group_type |-> group_type,
     group_name |-> group_name,
     group_id |-> IF group_id = None THEN "" ELSE group_id,
     action |-> action,
     member_name |-> IF uid \in DOMAIN names THEN names[uid] ELSE uid,
     member_id |-> uid,
     class_name |-> class_name]

\* The part both diffs share: create_group when the group is new, then the
\* additions sorted(expected - actual), then the removals sorted(actual - expected).
diff_changes(group_type, class_name, group_name, found, expected_ids, actual_ids, names) ==
    LET adds == SortedUids(expected_ids \ actual_ids)
        rms  == SortedUids(actual_ids \ expected_ids)
    IN  (IF found.is_new
         THEN <<create_group_change(group_type, class_name, group_name)>>
         ELSE <<>>)
        \o [i \in 1..Len(adds) |->
               member_change(group_type, class_name, group_name, found.group_id,
                             "add_member", "add", adds[i], names)]
        \o [i \in 1..Len(rms) |->
               member_change(group_type, class_name, group_name, found.group_id,
                             "remove_member", "rm", rms[i], names)]

\* SOLL of a SuS group: the account of every student of the class, found by
\* employeeId and, failing that, by the lower-cased email.
expected_sus_ids(class_students, all_users) ==
    LET by_eid(s) == Lookup(eid_to_uid(all_users), s.school_internal_id)
        by_upn(s) == IF Lower(s.email) # ""
                     THEN Lookup(upn_to_uid(all_users), Lower(s.email))
                     ELSE None
        uid(s) == IF by_eid(s) # None THEN by_eid(s) ELSE by_upn(s)
    IN  {uid(class_students[i]) : i \in 1..Len(class_students)} \ {None}

\* SOLL of a KuK group: class teachers and course teachers of the class's
\* students, name -> email -> account.
expected_teacher_names(class_students) ==
    LET of(s) == {Lower(Strip(s.class_teacher_1)), Lower(Strip(s.class_teacher_2))}
                 \cup {Lower(Strip(s.courses[j].teacher_name)) : j \in 1..Len(s.courses)}
    IN  UNION {of(class_students[i]) : i \in 1..Len(class_students)} \ {""}

expected_kuk_ids(class_students, tchs, all_users) ==
    LET emails == teacher_name_to_email(tchs)
        uid(name) == IF Lookup(emails, name) = None
                     THEN None
                     ELSE Lookup(upn_to_uid(all_users), emails[name])
    IN  {uid(n) : n \in expected_teacher_names(class_students)} \ {None}

\* IST: the members of an existing group, nothing for a group without id.
actual_ids_of(found, grps) ==
    IF found.group_id # None THEN get_members(grps, found.group_id) ELSE {}

member_requests(found) ==
    IF found.group_id # None THEN <<<<"get_members", found.group_id>>>> ELSE <<>>

\* One class group's diff once the group has been looked up: the changes,
\* the requests sent and the plugin instance with the cache as left behind.
class_diff(p, group_type, class_name, group_name, found, expected_ids, grps, names) ==
    [changes |-> diff_changes(group_type, class_name, group_name, found,
                              expected_ids, actual_ids_of(found, grps), names),
     requests |-> found.requests \o member_requests(found),
     plugin |-> with_cache(p, group_type, found.cache)]

diff_class_sus(p, cfg, class_name, class_students, grps) ==
    class_diff(p, "sus", class_name,
               group_name_of(cfg.group_sus_template, class_name),
               find_group(class_name, cfg.group_sus_template, p.sus_cache,
                          p.groups_bulk_loaded, grps),
               expected_sus_ids(class_students, p.all_users[1]),
               grps, uid_to_name(p.all_users[1]))

diff_class_kuk(p, cfg, class_name, class_students, tchs, grps) ==
    class_diff(p, "kuk", class_name,
               group_name_of(cfg.group_kuk_template, class_name),
               find_group(class_name, cfg.group_kuk_template, p.kuk_cache,
                          p.groups_bulk_loaded, grps),
               expected_kuk_ids(class_students, tchs, p.all_users[1]),
               grps, uid_to_name(p.all_users[1]))

\* changes.extend(...): what a later diff adds to an earlier one.
extend_diff(earlier, later) ==
    [changes |-> earlier.changes \o later.changes,
     requests |-> earlier.requests \o later.requests,
     plugin |-> later.plugin]

\* The KuK diff of a class follows its SuS diff on the same instance.
then_kuk(sus, cfg, class_name, class_students, tchs, grps) ==
    extend_diff(sus, diff_class_kuk(sus.plugin, cfg, class_name, class_students,
                                    tchs, grps))

diff_class(p, cfg, class_name, class_students, tchs, grps) ==
    then_kuk(diff_class_sus(p, cfg, class_name, class_students, grps),
             cfg, class_name, class_students, tchs, grps)

(***************************************************************************)
(* plugins/m365.py  compute_group_diff: lookups (the user list is fetched  *)
(* once per plugin instance; _all_users is optional, <<>> for None and     *)
(* <<list>> once fetched), classes, bulk load, then the SuS and the KuK    *)
(* diff of every class in ascending class order.  Yields the changes, the  *)
(* requests sent and the plugin instance afterwards.                       *)
(***************************************************************************)
RECURSIVE diff_classes(_, _, _, _, _, _)
then_classes(first, cfg, class_list, studs, tchs, grps) ==
    extend_diff(first, diff_classes(first.plugin, cfg, class_list, studs, tchs, grps))

diff_classes(p, cfg, class_list, studs, tchs, grps) ==
    IF class_list = <<>>
    THEN [changes |-> <<>>, requests |-> <<>>, plugin |-> p]
    ELSE then_classes(diff_class(p, cfg, Head(class_list),
                                 students_of_class(studs, Head(class_list)),
                                 tchs, grps),
                      cfg, Tail(class_list), studs, tchs, grps)

\* _build_lookups: the user list is requested unless the instance holds one.
build_lookups(p, directory) ==
    IF p.all_users = <<>>
    THEN [p EXCEPT !.all_users = <<list_users(directory)>>]
    ELSE p

lookup_requests(p) ==
    IF p.all_users = <<>> THEN <<<<"list_users">>>> ELSE <<>>

compute_group_diff(p, cfg, studs, tchs, directory, grps) ==
    extend_diff(
        [changes |-> <<>>,
         requests |-> lookup_requests(p) \o bulk_load_requests(cfg),
         plugin |-> p],
        diff_classes(bulk_load_groups(build_lookups(p, directory), cfg, grps,
                                      class_names_of(studs)),
                     cfg, SortedClasses(class_names_of(studs)), studs, tchs, grps))

(***************************************************************************)
(* The group diff run against a directory: inputs and specification.       *)
(***************************************************************************)
MaxStudents == 2    \* longest roster handed to compute_group_diff

Sids == <<"s1", "s2", "s3", "s4">>

\* The school email of the student at a roster position ("" for none).
SchoolEmails == <<"A@d", "b@d", "", "">>

TeacherSlots == {"none", "class_teacher", "course"}

GroupStudent(sid, email, class_name, teacher) ==
    [school_internal_id |-> sid,
     email |-> email,
     class_name |-> class_name,
     class_teacher_1 |-> IF teacher = "class_teacher" THEN "KIM" ELSE "",
     class_teacher_2 |-> "",
     courses |-> IF teacher = "course" THEN <<[teacher_name |-> "KIM"]>> ELSE <<>>]

\* The student at roster position i: the first one may lack the email, the
\* others carry theirs and have no class teacher entry.
GroupStudentsAt(i) ==
    {GroupStudent(Sids[i], e, c, t) :
        e \in (IF i = 1 THEN {SchoolEmails[i], ""} ELSE {SchoolEmails[i]}),
        c \in Range(ClassOrder),
        t \in (IF i = 1 THEN TeacherSlots ELSE TeacherSlots \ {"class_teacher"})}

GroupRosters ==
    UNION {{r \in [1..k -> UNION {GroupStudentsAt(i) : i \in 1..k}] :
               \A i \in 1..k : r[i] \in GroupStudentsAt(i)} : k \in 0..MaxStudents}

TeacherLists ==
    {<<[last_name |-> "Kim ", email |-> "Kim@d", job_title |-> t]>> : t \in {"StR", " "}}

User(id, employeeId, givenName, department, userPrincipalName, accountEnabled) ==
    [id |-> id,
     employeeId |-> employeeId,
     givenName |-> givenName,
     surname |-> "Lee",
     department |-> department,
     userPrincipalName |-> userPrincipalName,
     accountEnabled |-> accountEnabled,
     displayName |-> givenName]

\* Directories: the account of s1 with or without its employeeId, the
\* account of s2, and the teacher's account or none.
Directories ==
    {<<User("u1", eid, "Ann", "5a", "a@d", TRUE)>>
     \o (IF teacher THEN <<User("u3", "", "Kim", "", "kim@d", TRUE)>> ELSE <<>>)
     \o <<User("u2", "s2", "Bo", "6b", "b@d", TRUE)>> :
        eid \in {"s1", ""}, teacher \in BOOLEAN}

Configs ==
    {[group_sus_template |-> Template("", "_sus"),
      group_kuk_template |-> Template("", "_kuk")],
     [group_sus_template |-> Template("grp_", ""),
      group_kuk_template |-> Template("", "_kuk")],
     [group_sus_template |-> Template("grp_", ""),
      group_kuk_template |-> Template("grp_", "_kuk")],
     [group_sus_template |-> Template("grp_", ""),
      group_kuk_template |-> Template("kuk_", "")],
     [group_sus_template |-> Template("", ""),
      group_kuk_template |-> Template("", "")]}

\* A group of the directory; visible tells whether GET /groups/{id} finds it
\* already (a group just created is not yet replicated).
Group(id, displayName, members, visible) ==
    [id |-> id, displayName |-> displayName, members |-> members,
     visible |-> visible]

Absent == {"absent"}

\* Memberships of the two groups of class 5A found on the target.
Memberships5A ==
    {<<a, b>> : a \in {Absent, {}, {"u1"}, {"u2", "u3"}},
                b \in {Absent, {}, {"u3"}, {"u1"}}}

\* The groups on the target, named after the configured templates: those of
\* class 5A with any of the memberships above, those of class 6b both there
\* or both missing.
TargetGroups(cfg) ==
    {(IF m[1] = Absent THEN <<>>
      ELSE <<Group("g1", group_name_of(cfg.group_sus_template, "5A"), m[1], TRUE)>>)
     \o (IF m[2] = Absent THEN <<>>
         ELSE <<Group("g2", group_name_of(cfg.group_kuk_template, "5A"), m[2], TRUE)>>)
     \o (IF with6b
         THEN <<Group("g3", group_name_of(cfg.group_sus_template, "6b"), {"u2"}, TRUE),
                Group("g4", group_name_of(cfg.group_kuk_template, "6b"), {}, TRUE)>>
         ELSE <<>>) :
        m \in Memberships5A, with6b \in BOOLEAN}

\* M365Plugin.__init__
NewPlugin ==
    [sus_cache |-> <<>>,
     kuk_cache |-> <<>>,
     groups_bulk_loaded |-> FALSE,
     all_users |-> <<>>]

GroupDiffInit ==
    /\ ClientUnused
    /\ GuiUnused
    /\ pc = "fresh"
    /\ config \in Configs
    /\ all_students \in GroupRosters
    /\ teachers \in TeacherLists
    /\ users \in Directories
    /\ groups \in TargetGroups(config)
    /\ plugin = NewPlugin
    /\ changes = None
    /\ previous = None
    /\ log = <<>>
    /\ results = None
    /\ frame = None
    /\ source = None
    /\ manifest = None
    /\ max_suspend_percentage = None
    /\ changeset = None
    /\ adapter = None

\* compute_group_diff on the plugin instance, a first and a second time.
ComputeGroupDiff ==
    /\ pc \in {"fresh", "diffed"}
    /\ LET run == compute_group_diff(plugin, config, all_students, teachers,
                                     users, groups)
       IN  /\ changes' = run.changes
           /\ log' = log \o run.requests
           /\ plugin' = run.plugin
    /\ previous' = changes
    /\ pc' = IF pc = "fresh" THEN "diffed" ELSE "rediffed"
    /\ UNCHANGED <<config, all_students, teachers, users, groups, results, frame>>
    /\ UNCHANGED <<adapter, source, manifest, max_suspend_percentage, changeset>>
    /\ UNCHANGED <<clientVars, guiVars>>

\* The user listing of _build_lookups fails: the GraphApiError leaves
\* compute_group_diff before anything is cached.
ListUsersFails ==
    /\ pc = "fresh"
    /\ plugin.all_users = <<>>
    /\ log' = Append(log, <<"list_users">>)
    /\ pc' = "raised"
    /\ UNCHANGED <<config, all_students, teachers, users, groups, plugin,
                   changes, results, frame>>
    /\ UNCHANGED engineVars
    /\ UNCHANGED <<clientVars, guiVars>>

GroupDiffNext ==
    \/ ComputeGroupDiff
    \/ ListUsersFails

GroupDiffSpec == GroupDiffInit /\ [][GroupDiffNext]_vars

(***************************************************************************)
(* Claims about compute_group_diff, checked under GroupDiffSpec.           *)
(***************************************************************************)
Diffed == pc \in {"diffed", "rediffed"}

\* desired: the accounts the roster resolves to for a class and group type
Desired(class_name, group_type) ==
    IF group_type = "sus"
    THEN expected_sus_ids(students_of_class(all_students, class_name), users)
    ELSE expected_kuk_ids(students_of_class(all_students, class_name), teachers, users)

\* Whether the target has a group of the class's template-derived name.
OnTarget(class_name, group_type) ==
    find_group_by_name(groups, group_name_of(template_for(config, group_type), class_name)) # <<>>

\* actual: the members of the class's group on the target, none without group
Actual(class_name, group_type) ==
    IF OnTarget(class_name, group_type)
    THEN find_group_by_name(groups,
             group_name_of(template_for(config, group_type), class_name))[1].members
    ELSE {}

MemberIds(class_name, group_type, action) ==
    {ch.member_id : ch \in {x \in Range(changes) :
                                /\ x.class_name = class_name
                                /\ x.group_type = group_type
                                /\ x.action = action}}

\* C9: for every class and both group types the emitted changes turn the
\* actual member set into the desired one, (actual \cup added) \ removed =
\* desired, and no member is both added to and removed from a group.
C9_GroupDiffExact ==
    Diffed =>
        \A c \in class_names_of(all_students), ty \in {"sus", "kuk"} :
            /\ (Actual(c, ty) \cup MemberIds(c, ty, "add_member"))
                   \ MemberIds(c, ty, "remove_member") = Desired(c, ty)
            /\ MemberIds(c, ty, "add_member")
                   \cap MemberIds(c, ty, "remove_member") = {}

(***************************************************************************)
(* plugins/m365.py  apply_group_changes and its helpers.                   *)
(***************************************************************************)
BATCH_LIMIT == 20   \* GraphClient._BATCH_LIMIT

timeout == 30       \* _poll_groups_ready(timeout=30)

interval == 3       \* _poll_groups_ready(interval=3)

\* Ids the directory hands out to the groups it creates, in this order.
NewIds == <<"n1", "n2", "n3", "n4", "n5">>

GroupIdOrder == <<"g1", "g2", "g3", "g4">> \o NewIds

\* create_group on the directory: the next unused id.
next_group_id(grps) ==
    NewIds[1 + Cardinality({i \in 1..Len(grps) : grps[i].id \in Range(NewIds)})]

(***************************************************************************)
(* _ensure_group: the cached id, else the group found by name, else a new  *)
(* group.  outcome is what the directory does: "ok", "find_error" (the     *)
(* lookup raises GraphApiError, which leaves _ensure_group) or             *)
(* "create_error" (the creation raises, caught inside: None).              *)
(***************************************************************************)
ensure_group(class_name, template, cache, grps, outcome) ==
    LET key == cache_key(template, class_name)
        display_name == group_name_of(template, class_name)
        found == find_group_by_name(grps, display_name)
        new_id == next_group_id(grps)
        find == <<"find_group_by_name", display_name>>
    IN  IF class_name = ""
        THEN [group_id |-> None, raised |-> FALSE, cache |-> cache,
              groups |-> grps, requests |-> <<>>]
        ELSE IF key \in DOMAIN cache
        THEN [group_id |-> cache[key], raised |-> FALSE, cache |-> cache,
              groups |-> grps, requests |-> <<>>]
        ELSE IF outcome = "find_error"
        THEN [group_id |-> None, raised |-> TRUE, cache |-> cache,
              groups |-> grps, requests |-> <<find>>]
        ELSE IF found # <<>>
        THEN [group_id |-> found[1].id, raised |-> FALSE,
              cache |-> (key :> found[1].id) @@ cache,
              groups |-> grps, requests |-> <<find>>]
        ELSE IF outcome = "create_error"
        THEN [group_id |-> None, raised |-> FALSE, cache |-> cache,
              groups |-> grps,
              requests |-> <<find, <<"create_group", display_name, None>>>>]
        ELSE [group_id |-> new_id, raised |-> FALSE,
              cache |-> (key :> new_id) @@ cache,
              groups |-> Append(grps, Group(new_id, display_name, {}, FALSE)),
              requests |-> <<find, <<"create_group", display_name, new_id>>>>]

\* The result apply_group_changes records for one create_group change.
create_result(ch, ensured) ==
    [action |-> "create_group",
     group |-> ch.group_name,
     success |-> ~ensured.raised /\ ensured.group_id # None,
     message |-> IF ensured.raised THEN "GraphApiError"
                 ELSE IF ensured.group_id # None THEN ensured.group_id
                 ELSE "Erstellung fehlgeschlagen"]

\* Phase 1 taken to end at the first change that is not a create_group.
next_create_InListOrder(chs, i) ==
    IF i <= Len(chs) /\ chs[i].action = "create_group" THEN i ELSE 0

\* Phase 1 walks the list and skips what is not a create_group: the index of
\* the next create_group change at or after i, 0 when there is none.
next_create(chs, i) ==
    LET rest == {j \in i..Len(chs) : chs[j].action = "create_group"}
    IN  IF rest = {} THEN 0 ELSE CHOOSE j \in rest : \A k \in rest : j <= k

\* member_changes = [ch for ch in changes if ch["action"] != "create_group"]
member_changes_of(chs) ==
    LET IsMember(ch) == ch.action # "create_group"
    IN  SelectSeq(chs, IsMember)

\* The group an add_member is sent to: the id cached for its class and type.
add_member_group_id(p, cfg, ch) ==
    Lookup(cache_for(p, ch.group_type),
           cache_key(template_for(cfg, ch.group_type), ch.class_name))

DecimalDigits == <<"0", "1", "2", "3", "4", "5", "6", "7", "8", "9">>

\* str(idx) of a natural number: its decimal digits.
RECURSIVE str(_)
str(n) ==
    IF n < 10
    THEN DecimalDigits[n + 1]
    ELSE str(n \div 10) \o DecimalDigits[(n % 10) + 1]

\* The batch request of the member change at position idx (counted from 0),
\* as a list: empty when the change is passed over.
batch_request(p, cfg, ch, idx) ==
    IF ch.action = "add_member"
    THEN IF add_member_group_id(p, cfg, ch) \in {None, ""}
         THEN <<>>
         ELSE <<[change |-> ch,
                 request |-> [id |-> str(idx), method |-> "POST",
                              group_id |-> add_member_group_id(p, cfg, ch),
                              member_id |-> ch.member_id]]>>
    ELSE IF ch.action = "remove_member"
    THEN IF ch.group_id = ""
         THEN <<>>
         ELSE <<[change |-> ch,
                 request |-> [id |-> str(idx), method |-> "DELETE",
                              group_id |-> ch.group_id,
                              member_id |-> ch.member_id]]>>
    ELSE <<>>

RECURSIVE prepared_from(_, _, _, _)
prepared_from(p, cfg, chs, idx) ==
    IF idx >= Len(chs)
    THEN <<>>
    ELSE batch_request(p, cfg, chs[idx + 1], idx)
         \o prepared_from(p, cfg, chs, idx + 1)

prepared_of(p, cfg, chs) == prepared_from(p, cfg, chs, 0)

(***************************************************************************)
(* The directory's answer to the requests of one batch, one after the      *)
(* other; failing holds the positions that meet a server error.            *)
(***************************************************************************)
AlreadyExists == "added object references already exist"

HasGroup(grps, group_id) ==
    \E i \in 1..Len(grps) : grps[i].id = group_id /\ grps[i].visible

MembersOf(grps, group_id) ==
    (CHOOSE g \in Range(grps) : g.id = group_id).members

status_of(grps, request, fails) ==
    IF ~HasGroup(grps, request.group_id) THEN "HTTP 404"
    ELSE IF fails THEN "HTTP 500"
    ELSE IF request.method = "POST"
    THEN IF request.member_id \in MembersOf(grps, request.group_id)
         THEN AlreadyExists
         ELSE "204"
    ELSE IF request.member_id \in MembersOf(grps, request.group_id)
         THEN "204"
         ELSE "HTTP 404"

served(grps, request, status) ==
    IF status # "204"
    THEN grps
    ELSE [i \in 1..Len(grps) |->
            IF grps[i].id # request.group_id
            THEN grps[i]
            ELSE [grps[i] EXCEPT !.members =
                     IF request.method = "POST"
                     THEN @ \cup {request.member_id}
                     ELSE @ \ {request.member_id}]]

RECURSIVE batch_responses(_, _, _, _)
batch_responses(grps, slice, k, failing) ==
    IF k > Len(slice)
    THEN [groups |-> grps, responses |-> <<>>]
    ELSE LET status == status_of(grps, slice[k].request, k \in failing)
             rest == batch_responses(served(grps, slice[k].request, status),
                                     slice, k + 1, failing)
         IN  [groups |-> rest.groups,
              responses |-> <<[id |-> slice[k].request.id, status |-> status]>>
                            \o rest.responses]

\* The "already exist" test left out: every error message is a failure.
already_exist_Never(msg) == FALSE

\* "already exist" in msg.lower()
already_exist(msg) == msg = AlreadyExists

\* The results of one answered batch: success for 200/201/204, nothing for
\* an "already exist" error, a failed result for every other error.
member_result(ch, status) ==
    IF status = "204"
    THEN <<[action |-> ch.action, group |-> ch.group_name, success |-> TRUE,
            message |-> ch.member_name]>>
    ELSE IF already_exist(status)
    THEN <<>>
    ELSE <<[action |-> ch.action, group |-> ch.group_name, success |-> FALSE,
            message |-> status]>>

\* Matching by position in place of matching by id.
status_by_id_ByPosition(responses, k, id) ==
    IF k <= Len(responses) THEN responses[k].status ELSE "HTTP 0"

\* resp_by_id = {r["id"]: r for r in responses}; resp_by_id.get(id, {}) and
\* its status: of the last sub-response with this id, "HTTP 0" (status 0,
\* no body) when there is none.  k is the position of the request.
status_by_id(responses, k, id) ==
    LET with_id == {n \in 1..Len(responses) : responses[n].id = id}
    IN  IF with_id = {}
        THEN "HTTP 0"
        ELSE responses[CHOOSE n \in with_id : \A m \in with_id : m <= n].status

RECURSIVE batch_results(_, _, _)
batch_results(slice, responses, k) ==
    IF k > Len(slice)
    THEN <<>>
    ELSE member_result(slice[k].change,
                       status_by_id(responses, k, slice[k].request.id))
         \o batch_results(slice, responses, k + 1)

\* The results when the batch request itself raised GraphApiError.
batch_error_results(slice) ==
    [k \in 1..Len(slice) |->
        [action |-> slice[k].change.action, group |-> slice[k].change.group_name,
         success |-> FALSE, message |-> "Batch-Fehler"]]

\* The whole rest of the list taken as one slice.
batch_slice_Whole(prepared, batch_start) ==
    SubSeq(prepared, batch_start + 1, Len(prepared))

\* prepared[batch_start : batch_start + batch_limit]
batch_slice(prepared, batch_start) ==
    SubSeq(prepared, batch_start + 1,
           IF batch_start + BATCH_LIMIT < Len(prepared)
           THEN batch_start + BATCH_LIMIT ELSE Len(prepared))

\* The batch as the directory saw it: its requests and the sub-responses it
\* gave (none when the batch itself was refused).
batch_entry(slice, responses) ==
    <<"batch", [k \in 1..Len(slice) |-> slice[k].request], responses>>

(***************************************************************************)
(* apply_group_changes run against a directory: inputs and specification.  *)
(* One step per create_group change, per polling round and per batch.      *)
(***************************************************************************)
MaxChanges == 3     \* longest list handed to apply_group_changes

DefaultConfig ==
    [group_sus_template |-> Template("", "_sus"),
     group_kuk_template |-> Template("", "_kuk")]

\* The directory before the call: the KuK group of 5A, with or without the
\* SuS group of 5A.
ApplyTargets ==
    {(IF sus THEN <<Group("g1", group_name_of(DefaultConfig.group_sus_template, "5A"),
                          {"u1"}, TRUE)>>
      ELSE <<>>)
     \o <<Group("g2", group_name_of(DefaultConfig.group_kuk_template, "5A"),
                {"u1"}, TRUE)>> : sus \in BOOLEAN}

\* The changes a caller may hand over, as compute_group_diff words them.
CandidateChanges ==
    LET sus5 == group_name_of(DefaultConfig.group_sus_template, "5A")
        kuk5 == group_name_of(DefaultConfig.group_kuk_template, "5A")
        kuk6 == group_name_of(DefaultConfig.group_kuk_template, "6b")
        names == ("u1" :> "Ann") @@ ("u3" :> "Kim")
    IN  {create_group_change("sus", "5A", sus5),
         member_change("sus", "5A", sus5, None, "add_member", "add", "u1", names),
         member_change("kuk", "5A", kuk5, "g2", "add_member", "add", "u3", names),
         member_change("kuk", "5A", kuk5, "g2", "remove_member", "rm", "u1", names),
         create_group_change("kuk", "6b", kuk6),
         member_change("kuk", "6b", kuk6, None, "add_member", "add", "u3", names)}

ChangeLists ==
    {l \in SeqsUpTo(CandidateChanges, MaxChanges) :
        \A i, j \in 1..Len(l) : i # j => l[i] # l[j]}

\* The plugin instance the call runs on: a new one, or the one that computed
\* the diff and so holds the bulk-loaded caches.
ApplyPlugins(cfg, grps) ==
    {NewPlugin, bulk_load_groups(NewPlugin, cfg, grps, Range(ClassOrder))}

\* Extra seconds a polling round may take beyond its sleep: none, or the
\* whole timeout.
PollDelays == {0, timeout}

GroupApplyInit ==
    /\ pc = "ready"
    /\ config = DefaultConfig
    /\ groups \in ApplyTargets
    /\ plugin \in ApplyPlugins(config, groups)
    /\ changes \in ChangeLists
    /\ results = None
    /\ log = <<>>
    /\ frame = None
    /\ all_students = None
    /\ teachers = None
    /\ users = None
    /\ EngineUnused
    /\ ClientUnused
    /\ GuiUnused

\* apply_group_changes is entered: results = [], new_group_ids = [].
ApplyGroupChanges ==
    /\ pc = "ready"
    /\ pc' = "create"
    /\ results' = <<>>
    /\ frame' = [i |-> 1, new_group_ids |-> <<>>, pending |-> {}, elapsed |-> 0,
                 rounds |-> 0, prepared |-> <<>>, batch_start |-> 0]
    /\ UNCHANGED <<config, all_students, teachers, users, groups, plugin, changes, log>>
    /\ UNCHANGED engineVars
    /\ UNCHANGED <<clientVars, guiVars>>

\* Phase 1: the loop reaches the next create_group change and ensures its group.
CreateGroup ==
    /\ pc = "create"
    /\ next_create(changes, frame.i) # 0
    /\ \E outcome \in {"ok", "find_error", "create_error"} :
         LET j == next_create(changes, frame.i)
             ch == changes[j]
             ensured == ensure_group(ch.class_name,
                                     template_for(config, ch.group_type),
                                     cache_for(plugin, ch.group_type),
                                     groups, outcome)
         IN  /\ plugin' = with_cache(plugin, ch.group_type, ensured.cache)
             /\ groups' = ensured.groups
             /\ log' = log \o ensured.requests
             /\ results' = Append(results, create_result(ch, ensured))
             /\ frame' = [frame EXCEPT
                            !.i = j + 1,
                            !.new_group_ids =
                                IF ~ensured.raised /\ ensured.group_id # None
                                THEN Append(@, ensured.group_id) ELSE @]
    /\ pc' = pc
    /\ UNCHANGED <<config, all_students, teachers, users, changes>>
    /\ UNCHANGED engineVars
    /\ UNCHANGED <<clientVars, guiVars>>

\* Phase 2 begins: _poll_groups_ready(new_group_ids) sets pending and deadline.
StartPolling ==
    /\ pc = "create"
    /\ next_create(changes, frame.i) = 0
    /\ frame.new_group_ids # <<>>
    /\ pc' = "poll"
    /\ frame' = [frame EXCEPT !.pending = Range(frame.new_group_ids),
                               !.elapsed = 0, !.rounds = 0]
    /\ UNCHANGED <<config, all_students, teachers, users, groups, plugin,
                   changes, results, log>>
    /\ UNCHANGED engineVars
    /\ UNCHANGED <<clientVars, guiVars>>

\* The loop condition without its deadline.
PollGoesOn_NoDeadline == frame.pending # {}

\* while pending and time.time() < deadline
PollGoesOn == frame.pending # {} /\ frame.elapsed < timeout

poll_requests(pending) ==
    LET Polled(gid) == gid \in pending
        order == SelectSeq(GroupIdOrder, Polled)
    IN  [k \in 1..Len(order) |-> <<"get_group", order[k]>>]

\* One round of the polling loop: sleep, then one get_group per pending
\* group; meanwhile the directory may have replicated some of them.
PollRound ==
    /\ pc = "poll"
    /\ PollGoesOn
    /\ \E d \in PollDelays,
          seen \in SUBSET {gid \in frame.pending : ~HasGroup(groups, gid)} :
         /\ groups' = [i \in 1..Len(groups) |->
                          IF groups[i].id \in seen
                          THEN [groups[i] EXCEPT !.visible = TRUE]
                          ELSE groups[i]]
         /\ frame' = [frame EXCEPT
                        !.pending = {gid \in frame.pending : ~HasGroup(groups', gid)},
                        !.elapsed = @ + interval + d,
                        !.rounds = @ + 1]
    /\ log' = log \o poll_requests(frame.pending)
    /\ pc' = pc
    /\ UNCHANGED <<config, all_students, teachers, users, plugin, changes, results>>
    /\ UNCHANGED engineVars
    /\ UNCHANGED <<clientVars, guiVars>>

\* get_group answers with an error other than 404: the GraphApiError leaves
\* _poll_groups_ready and apply_group_changes.
PollRaises ==
    /\ pc = "poll"
    /\ PollGoesOn
    /\ log' = Append(log, poll_requests(frame.pending)[1])
    /\ pc' = "raised"
    /\ UNCHANGED <<config, all_students, teachers, users, groups, plugin,
                   changes, results, frame>>
    /\ UNCHANGED engineVars
    /\ UNCHANGED <<clientVars, guiVars>>

\* Phase 3 begins, after phase 1 when nothing is to be polled and after the
\* polling loop otherwise: the batch requests are prepared.
PrepareMembers ==
    /\ \/ pc = "create" /\ next_create(changes, frame.i) = 0
                        /\ frame.new_group_ids = <<>>
       \/ pc = "poll" /\ ~PollGoesOn
    /\ LET todo == prepared_of(plugin, config, member_changes_of(changes))
       IN  /\ frame' = [frame EXCEPT !.prepared = todo, !.batch_start = 0]
           /\ pc' = IF todo = <<>> THEN "done" ELSE "members"
    /\ UNCHANGED <<config, all_students, teachers, users, groups, plugin,
                   changes, results, log>>
    /\ UNCHANGED engineVars
    /\ UNCHANGED <<clientVars, guiVars>>

AfterBatch ==
    /\ frame' = [frame EXCEPT !.batch_start = @ + BATCH_LIMIT]
    /\ pc' = IF frame.batch_start + BATCH_LIMIT < Len(frame.prepared)
             THEN "members" ELSE "done"

\* One batch of at most BATCH_LIMIT requests is sent and answered.
SendBatch ==
    /\ pc = "members"
    /\ LET slice == batch_slice(frame.prepared, frame.batch_start)
       IN  \E failing \in SUBSET (1..Len(slice)) :
             LET answer == batch_responses(groups, slice, 1, failing)
             IN  /\ groups' = answer.groups
                 /\ results' = results \o batch_results(slice, answer.responses, 1)
                 /\ log' = Append(log, batch_entry(slice, answer.responses))
    /\ AfterBatch
    /\ UNCHANGED <<config, all_students, teachers, users, plugin, changes>>
    /\ UNCHANGED engineVars
    /\ UNCHANGED <<clientVars, guiVars>>

\* The batch request itself raises GraphApiError: every change of the batch
\* gets a failed result.
BatchFails ==
    /\ pc = "members"
    /\ LET slice == batch_slice(frame.prepared, frame.batch_start)
       IN  /\ results' = results \o batch_error_results(slice)
           /\ log' = Append(log, batch_entry(slice, <<>>))
    /\ AfterBatch
    /\ UNCHANGED <<config, all_students, teachers, users, groups, plugin, changes>>
    /\ UNCHANGED engineVars
    /\ UNCHANGED <<clientVars, guiVars>>

GroupApplyNext ==
    \/ ApplyGroupChanges
    \/ CreateGroup
    \/ StartPolling
    \/ PollRound
    \/ PollRaises
    \/ PrepareMembers
    \/ SendBatch
    \/ BatchFails

GroupApplySpec == GroupApplyInit /\ [][GroupApplyNext]_vars

(***************************************************************************)
(* Claims about apply_group_changes, checked under GroupApplySpec.         *)
(***************************************************************************)
IsCreateCall(entry) == entry[1] \in {"find_group_by_name", "create_group"}

IsPollCall(entry) == entry[1] = "get_group"

IsBatchCall(entry) == entry[1] = "batch"

CreateChanges == {i \in 1..Len(changes) : changes[i].action = "create_group"}

CreateResults == {i \in 1..Len(results) : results[i].action = "create_group"}

\* The ids this call's creations returned for a group name.
CreatedIds(group_name) ==
    {log[i][3] : i \in {k \in 1..Len(log) :
                           /\ log[k][1] = "create_group"
                           /\ log[k][2] = group_name
                           /\ log[k][3] # None}}

\* The requests of all batches sent so far.
BatchRequests ==
    UNION {Range(log[i][2]) : i \in {k \in 1..Len(log) : IsBatchCall(log[k])}}

\* The add_member change at position idx (from 0) of the member changes went
\* out in a batch, and to this group only.
AddSentTo(idx, ch, group_id) ==
    /\ \E r \in BatchRequests :
          /\ r.id = str(idx) /\ r.method = "POST"
          /\ r.member_id = ch.member_id /\ r.group_id = group_id
    /\ \A r \in BatchRequests : r.id = str(idx) => r.group_id = group_id

\* C10: the three phases of apply_group_changes are strictly ordered whatever
\* the order of the input list: no creation request follows a polling or a
\* batch request, every create_group change has been executed once polling
\* or the membership phase has begun, no polling request follows a batch, and
\* an add_member for a group created in this call is sent to the id that
\* creation returned.
C10_PhasesOrdered ==
    pc \in {"create", "poll", "members", "done", "raised"} =>
        /\ \A i, j \in 1..Len(log) :
              i < j => /\ ~((IsPollCall(log[i]) \/ IsBatchCall(log[i]))
                            /\ IsCreateCall(log[j]))
                       /\ ~(IsBatchCall(log[i]) /\ IsPollCall(log[j]))
        /\ pc \in {"poll", "members", "done"} =>
              Cardinality(CreateResults) = Cardinality(CreateChanges)
        /\ pc \in {"members", "done"} => ~PollGoesOn
        /\ pc = "done" =>
              \A k \in 1..Len(member_changes_of(changes)) :
                 LET ch == member_changes_of(changes)[k]
                 IN  ch.action = "add_member" =>
                        \A gid \in CreatedIds(ch.group_name) :
                            AddSentTo(k - 1, ch, gid)

\* An add_member stands before the create_group of its group in the list;
\* the group was created, polled, and the batch went to the new id.
C10_Witness ==
    /\ pc = "done"
    /\ \E i, j \in 1..Len(changes) :
          /\ i < j
          /\ changes[i].action = "add_member"
          /\ changes[j].action = "create_group"
          /\ changes[i].group_name = changes[j].group_name
          /\ CreatedIds(changes[j].group_name) # {}
    /\ \E k \in 1..Len(log) : IsPollCall(log[k])
    /\ \E r \in BatchRequests : r.group_id \in Range(NewIds)

(***************************************************************************)
(* plugins/m365.py  the account side of the plugin: get_manifest,          *)
(* apply_new, apply_changes, apply_suspend against the directory's users.  *)
(***************************************************************************)
\* get_manifest: one entry per user that carries an employeeId; the hash is
\* taken over givenName, surname, department and userPrincipalName.
manifest_entry(u) ==
    [school_internal_id |-> u.employeeId,
     data_hash |-> compute_data_hash([first_name |-> u.givenName,
                                      last_name |-> u.surname,
                                      class_name |-> u.department,
                                      email |-> u.userPrincipalName]),
     is_active |-> u.accountEnabled]

get_manifest(directory) ==
    LET HasEid(u) == u.employeeId # ""
        listed == SelectSeq(list_users(directory), HasEid)
    IN  [i \in 1..Len(listed) |-> manifest_entry(listed[i])]

\* _format_display_name with the default template "{k} {n}, {v}", stripped
\* (last names of the model are never empty).
format_display_name(student) ==
    (IF student.class_name = "" THEN "" ELSE student.class_name \o " ")
    \o student.last_name \o ","
    \o (IF student.first_name = "" THEN "" ELSE " " \o student.first_name)

\* GET /users/{upn}: optional, <<>> for None.
find_user_by_upn(directory, upn) ==
    LET Same(u) == Lower(u.userPrincipalName) = Lower(upn)
        matches == SelectSeq(directory, Same)
    IN  IF matches = <<>> THEN <<>> ELSE <<matches[1]>>

\* GET /users?$filter=employeeId eq ...: the first match, <<>> for None.
find_user_by_employee_id(directory, employee_id) ==
    LET Same(u) == u.employeeId = employee_id
        matches == SelectSeq(directory, Same)
    IN  IF matches = <<>> THEN <<>> ELSE <<matches[1]>>

\* PATCH /users/{id}: the directory with the user's fields overwritten by
\* the update (a record holding every field, changed or not).
update_user(directory, user_id, updated) ==
    [i \in 1..Len(directory) |->
        IF directory[i].id = user_id THEN updated ELSE directory[i]]

NewUserIds == <<"n1", "n2", "n3", "n4">>

\* POST /users: the id the directory gives the next user it creates.
next_user_id(directory) ==
    NewUserIds[1 + Cardinality({i \in 1..Len(directory) :
                                   directory[i].id \in Range(NewUserIds)})]

(***************************************************************************)
(* core/email_generator.py  generate_email takes first_name, last_name,    *)
(* domain, template and existing_emails; apply_new and enrich_preview call *)
(* it with the keyword class_name besides, which Python answers with a     *)
(* TypeError before the function body runs.                                *)
(***************************************************************************)
generate_email_parameters ==
    {"first_name", "last_name", "domain", "template", "existing_emails"}

generate_email_keywords == {"class_name"}

generate_email_raises == ~(generate_email_keywords \subseteq generate_email_parameters)

\* The statuses the directory answers a student's requests with: 0 for no
\* error, else the status of the GraphApiError (401 also for a token
\* request that was refused).
ApplyStatuses == {0, 401, 403, 500}

\* str(exc) of a GraphApiError: "Graph API {status_code}: ...".
error_message(status) == "Graph API " \o str(status)

(***************************************************************************)
(* apply_new, one student: an account found under the student's email is   *)
(* linked (employeeId, department, displayName), otherwise one is created. *)
(* fails tells that the directory answers the student's requests with an   *)
(* error (GraphApiError, caught: a failed result); errors[k] is the status *)
(* of the error student k meets, 0 for none.                               *)
(***************************************************************************)
linked_user(u, student) ==
    [u EXCEPT !.employeeId = student.school_internal_id,
              !.department = student.class_name,
              !.displayName = format_display_name(student)]

created_user(directory, student) ==
    [id |-> next_user_id(directory),
     employeeId |-> student.school_internal_id,
     givenName |-> student.first_name,
     surname |-> student.last_name,
     department |-> student.class_name,
     userPrincipalName |-> Strip(student.email),
     accountEnabled |-> TRUE,
     displayName |-> format_display_name(student)]

new_applied(directory, student, existing_user, fails) ==
    IF fails THEN directory
    ELSE IF existing_user # <<>>
    THEN update_user(directory, existing_user[1].id,
                     linked_user(existing_user[1], student))
    ELSE Append(directory, created_user(directory, student))

new_result(student, existing_user, status) ==
    [school_internal_id |-> student.school_internal_id,
     success |-> status = 0,
     message |-> IF status # 0 THEN error_message(status)
                 ELSE IF existing_user # <<>> THEN "Verknuepft"
                 ELSE Strip(student.email)]

\* The loop of apply_new from student k on; a student without email makes
\* the call to generate_email, whose TypeError leaves apply_new.
RECURSIVE apply_new_from(_, _, _, _, _)
apply_new_from(directory, done, studs, k, errors) ==
    IF k > Len(studs)
    THEN [users |-> directory, results |-> done, raised |-> FALSE]
    ELSE IF Strip(studs[k].email) = "" /\ generate_email_raises
    THEN [users |-> directory, results |-> done, raised |-> TRUE]
    ELSE apply_new_from(
             new_applied(directory, studs[k],
                         find_user_by_upn(directory, Strip(studs[k].email)),
                         errors[k] # 0),
             Append(done, new_result(studs[k],
                         find_user_by_upn(directory, Strip(studs[k].email)),
                         errors[k])),
             studs, k + 1, errors)

apply_new(directory, studs, errors) ==
    apply_new_from(directory, <<>>, studs, 1, errors)

(***************************************************************************)
(* apply_changes, one student: the account is found by employeeId or,      *)
(* failing that, by email; only the fields the source fills and that       *)
(* differ are written.                                                     *)
(***************************************************************************)
user_to_change(directory, student) ==
    IF find_user_by_employee_id(directory, student.school_internal_id) # <<>>
    THEN find_user_by_employee_id(directory, student.school_internal_id)
    ELSE IF Strip(student.email) # ""
    THEN find_user_by_upn(directory, Strip(student.email))
    ELSE <<>>

\* The keys of the updates dict before displayName is added.
update_keys(u, student) ==
    (IF u.employeeId = "" THEN {"employeeId"} ELSE {})
    \cup (IF student.first_name # "" /\ student.first_name # u.givenName
          THEN {"givenName"} ELSE {})
    \cup (IF student.last_name # "" /\ student.last_name # u.surname
          THEN {"surname"} ELSE {})
    \cup (IF student.class_name # "" /\ student.class_name # u.department
          THEN {"department"} ELSE {})
    \cup (IF Strip(student.email) # ""
             /\ Lower(Strip(student.email)) # Lower(u.userPrincipalName)
          THEN {"userPrincipalName"} ELSE {})

updated_user(u, student, keys) ==
    IF keys = {}
    THEN u
    ELSE [u EXCEPT
            !.employeeId = IF "employeeId" \in keys
                           THEN student.school_internal_id ELSE @,
            !.givenName = IF "givenName" \in keys THEN student.first_name ELSE @,
            !.surname = IF "surname" \in keys THEN student.last_name ELSE @,
            !.department = IF "department" \in keys THEN student.class_name ELSE @,
            !.userPrincipalName = IF "userPrincipalName" \in keys
                                  THEN Strip(student.email) ELSE @,
            !.displayName = format_display_name(student)]

changes_applied(directory, student, found, fails) ==
    IF fails \/ found = <<>>
    THEN directory
    ELSE update_user(directory, found[1].id,
                     updated_user(found[1], student, update_keys(found[1], student)))

change_result(student, found, status) ==
    [school_internal_id |-> student.school_internal_id,
     success |-> status = 0 /\ found # <<>>,
     message |-> IF status # 0 THEN error_message(status)
                 ELSE IF found = <<>> THEN "nicht gefunden" ELSE ""]

RECURSIVE apply_changes_from(_, _, _, _, _)
apply_changes_from(directory, done, studs, k, errors) ==
    IF k > Len(studs)
    THEN [users |-> directory, results |-> done]
    ELSE apply_changes_from(
             changes_applied(directory, studs[k],
                             user_to_change(directory, studs[k]), errors[k] # 0),
             Append(done, change_result(studs[k],
                             user_to_change(directory, studs[k]), errors[k])),
             studs, k + 1, errors)

apply_changes(directory, studs, errors) ==
    apply_changes_from(directory, <<>>, studs, 1, errors)

(***************************************************************************)
(* apply_suspend, one id: the account found by employeeId is disabled.     *)
(***************************************************************************)
suspend_applied(directory, found, fails) ==
    IF fails \/ found = <<>>
    THEN directory
    ELSE update_user(directory, found[1].id,
                     [found[1] EXCEPT !.accountEnabled = FALSE])

suspend_result(sid, found, status) ==
    [school_internal_id |-> sid,
     success |-> status = 0 /\ found # <<>>,
     message |-> IF status # 0 THEN error_message(status)
                 ELSE IF found = <<>> THEN "nicht gefunden" ELSE ""]

RECURSIVE apply_suspend_from(_, _, _, _, _)
apply_suspend_from(directory, done, sids, k, errors) ==
    IF k > Len(sids)
    THEN [users |-> directory, results |-> done]
    ELSE apply_suspend_from(
             suspend_applied(directory,
                             find_user_by_employee_id(directory, sids[k]),
                             errors[k] # 0),
             Append(done, suspend_result(sids[k],
                             find_user_by_employee_id(directory, sids[k]),
                             errors[k])),
             sids, k + 1, errors)

apply_suspend(directory, sids, errors) ==
    apply_suspend_from(directory, <<>>, sids, 1, errors)


(***************************************************************************)
(* SyncSpec: one synchronisation of the accounts.  The engine computes the *)
(* ChangeSet from the roster and the plugin's manifest, the apply worker   *)
(* calls apply_new, apply_changes and apply_suspend on it in this order,   *)
(* and the ChangeSet is computed again from the same roster.               *)
(***************************************************************************)
MaxRoster == 2

SyncIds == <<"s1", "s2", "s3">>

SyncStudent(sid, first_name, class_name, email) ==
    [school_internal_id |-> sid,
     first_name |-> first_name,
     last_name |-> "Lee",
     class_name |-> class_name,
     email |-> email,
     photo_path |-> None]

\* The records the roster may hold for the student in place i: s1 with or
\* without first name, class and email, s2 with or without email, s3 whole.
SyncStudentsAt(i) ==
    IF i = 1
    THEN {SyncStudent("s1", f, k, e) : f \in {"Ann", ""}, k \in {"5a", ""}, e \in {"a@d", ""}}
    ELSE IF i = 2
    THEN {SyncStudent("s2", "Bo", "5a", e) : e \in {"b@d", ""}}
    ELSE {SyncStudent(SyncIds[i], "Ann", "5a", "c@d")}

RosterSize == IF MaxRoster < Len(SyncIds) THEN MaxRoster ELSE Len(SyncIds)

RECURSIVE SyncRostersFrom(_)
SyncRostersFrom(i) ==
    IF i > RosterSize
    THEN {<<>>}
    ELSE LET rest == SyncRostersFrom(i + 1)
         IN  rest \cup {<<s>> \o r : s \in SyncStudentsAt(i), r \in rest}

SyncRosters == SyncRostersFrom(1)

\* Directories: the account of s1 absent, linked or not yet linked, under
\* the roster's first name or another; the account of s2 absent or linked;
\* the account of a leaver absent, enabled or disabled.
SyncDirectories ==
    {a \o b \o c :
        a \in {<<>>} \cup {<<User("u1", eid, given, "5a", "a@d", TRUE)>> :
                              eid \in {"s1", ""}, given \in {"Ann", "Bo"}},
        b \in {<<>>, <<User("u2", "s2", "Bo", "5a", "b@d", TRUE)>>},
        c \in {<<>>} \cup {<<User("u9", "s9", "Ann", "5a", "z@d", enabled)>> :
                              enabled \in BOOLEAN}}

\* max_suspend_percentage of the settings, 15 %, in tenths of a percent.
DefaultThreshold == 150

SyncInit ==
    /\ ClientUnused
    /\ GuiUnused
    /\ pc = "sync"
    /\ source \in SyncRosters
    /\ users \in SyncDirectories
    /\ manifest = <<>>
    /\ max_suspend_percentage = DefaultThreshold
    /\ changeset = None
    /\ adapter = None
    /\ previous = None
    /\ plugin = NewPlugin
    /\ results = <<>>
    /\ config = None
    /\ all_students = None
    /\ teachers = None
    /\ groups = None
    /\ changes = None
    /\ log = None
    /\ frame = None

SyncUnchanged ==
    UNCHANGED <<config, all_students, teachers, groups, changes, log, frame, clientVars, guiVars>>

\* plugin.get_manifest() and compute_changeset on its answer.
SyncCompute ==
    /\ pc \in {"sync", "applied"}
    /\ manifest' = get_manifest(users)
    /\ plugin' = [plugin EXCEPT !.all_users = <<list_users(users)>>]
    /\ changeset' = compute_changeset(source, manifest', max_suspend_percentage)
    /\ previous' = changeset
    /\ pc' = IF pc = "sync" THEN "computed" ELSE "recomputed"
    /\ UNCHANGED <<adapter, source, max_suspend_percentage, users, results>>
    /\ SyncUnchanged

\* plugin.apply_new(cs.new), returning its results.
ApplyNew ==
    /\ pc = "computed"
    /\ \E errors \in [1..Len(changeset.new) -> ApplyStatuses] :
        /\ ~apply_new(users, changeset.new, errors).raised
        /\ users' = apply_new(users, changeset.new, errors).users
        /\ results' = results \o apply_new(users, changeset.new, errors).results
    /\ pc' = "new_applied"
    /\ UNCHANGED <<adapter, source, manifest, max_suspend_percentage, changeset, previous, plugin>>
    /\ SyncUnchanged

\* plugin.apply_new(cs.new) left by the TypeError of generate_email; the
\* worker reports the error and makes no further call.
ApplyNewRaises ==
    /\ pc = "computed"
    /\ \E errors \in [1..Len(changeset.new) -> ApplyStatuses] :
        /\ apply_new(users, changeset.new, errors).raised
        /\ users' = apply_new(users, changeset.new, errors).users
    /\ pc' = "raised"
    /\ UNCHANGED <<adapter, source, manifest, max_suspend_percentage, changeset, previous,
                   plugin, results>>
    /\ SyncUnchanged

\* plugin.apply_changes(cs.changed).
ApplyChanges ==
    /\ pc = "new_applied"
    /\ \E errors \in [1..Len(changeset.changed) -> ApplyStatuses] :
        /\ users' = apply_changes(users, changeset.changed, errors).users
        /\ results' = results \o apply_changes(users, changeset.changed, errors).results
    /\ pc' = "changes_applied"
    /\ UNCHANGED <<adapter, source, manifest, max_suspend_percentage, changeset, previous, plugin>>
    /\ SyncUnchanged

\* plugin.apply_suspend(cs.suspended).
ApplySuspend ==
    /\ pc = "changes_applied"
    /\ \E errors \in [1..Len(changeset.suspended) -> ApplyStatuses] :
        /\ users' = apply_suspend(users, changeset.suspended, errors).users
        /\ results' = results \o apply_suspend(users, changeset.suspended, errors).results
    /\ pc' = "applied"
    /\ UNCHANGED <<adapter, source, manifest, max_suspend_percentage, changeset, previous, plugin>>
    /\ SyncUnchanged

SyncNext ==
    \/ SyncCompute
    \/ ApplyNew
    \/ ApplyNewRaises
    \/ ApplyChanges
    \/ ApplySuspend

SyncSpec == SyncInit /\ [][SyncNext]_vars

(***************************************************************************)
(* Claims about the synchronisation of the accounts, under SyncSpec.       *)
(***************************************************************************)
AllSuccessful == \A i \in 1..Len(results) : results[i].success

\* C8: after compute_changeset, apply_new, apply_changes and apply_suspend on
\* the whole ChangeSet with every result successful, the second
\* compute_changeset on the same roster has empty new, changed and suspended.
C8_Converges ==
    (pc = "recomputed" /\ AllSuccessful) =>
        /\ changeset.new = <<>>
        /\ changeset.changed = <<>>
        /\ changeset.suspended = <<>>


(***************************************************************************)
(* Claims about the readiness polling, checked under GroupApplySpec.       *)
(***************************************************************************)
\* The ids the get_group requests of this call asked for.
PolledIds == {log[i][2] : i \in {k \in 1..Len(log) : IsPollCall(log[k])}}

\* The ids of the groups this call's create_group requests made.
AllCreatedIds ==
    {log[i][3] : i \in {k \in 1..Len(log) :
                           log[k][1] = "create_group" /\ log[k][3] # None}}

\* The polling loop has ended on its deadline with groups still pending.
PollTimedOut == frame.pending # {} /\ frame.elapsed >= timeout

\* What holds of the polling in every state of the call, but for which
\* groups are polled.
PollingBounded ==
    pc \in {"poll", "members", "done", "raised"} =>
        /\ frame.rounds <= timeout \div interval
        /\ frame.elapsed >= frame.rounds * interval
        /\ frame.pending \subseteq Range(frame.new_group_ids)
        /\ \A gid \in Range(frame.new_group_ids) :
              (frame.rounds > 0 /\ gid \notin frame.pending /\ pc # "raised")
                  => HasGroup(groups, gid)
        /\ pc \in {"members", "done"} =>
              frame.pending = {} \/ frame.elapsed >= timeout

\* A step of the polling loop: a round drops exactly the groups it saw and
\* is taken only while groups are pending before the deadline; the step
\* that ends the loop, on the deadline too, enters the membership phase and
\* leaves the results as they are.
PollingStep ==
    /\ (pc = "poll" /\ pc' = "poll") =>
          /\ PollGoesOn
          /\ frame'.rounds = frame.rounds + 1
          /\ frame'.elapsed >= frame.elapsed + interval
          /\ frame'.pending = {gid \in frame.pending : ~HasGroup(groups', gid)}
    /\ (pc = "poll" /\ ~PollGoesOn) =>
          /\ pc' \in {"members", "done"}
          /\ results' = results

MemberChanges == member_changes_of(changes)

\* The batches the directory answered, as positions of the log.
AnsweredBatches == {i \in 1..Len(log) : IsBatchCall(log[i]) /\ log[i][3] # <<>>}

\* The member changes (positions from 1) whose add request the directory
\* answered with its "already exist" error.
AlreadyExistingAdds ==
    UNION {{(CHOOSE m \in 1..Len(MemberChanges) : str(m - 1) = log[i][2][k].id) :
               k \in {n \in 1..Len(log[i][2]) :
                         /\ log[i][2][n].method = "POST"
                         /\ log[i][3][n].status = AlreadyExists}} :
           i \in AnsweredBatches}

\* The sub-responses of the answered batches that were anything else.
OtherResponses ==
    UNION {{<<i, k>> : k \in {n \in 1..Len(log[i][3]) :
                                log[i][3][n].status # AlreadyExists}} :
           i \in AnsweredBatches}

\* The requests of the batches the directory refused as a whole.
RefusedRequests ==
    UNION {{<<i, k>> : k \in 1..Len(log[i][2])} :
           i \in {n \in 1..Len(log) : IsBatchCall(log[n]) /\ log[n][3] = <<>>}}

MemberResults == {i \in 1..Len(results) : results[i].action # "create_group"}

\* A result that reports the change as done.
SuccessFor(ch) ==
    \E i \in MemberResults :
        /\ results[i].action = ch.action
        /\ results[i].group = ch.group_name
        /\ results[i].message = ch.member_name
        /\ results[i].success

MAX_RETRIES == 3            \* _MAX_RETRIES
DEFAULT_RETRY_AFTER == 5    \* _DEFAULT_RETRY_AFTER
TOKEN_MARGIN == 60          \* _get_token: time.time() < self._token_expires - 60
DEFAULT_EXPIRES_IN == 3600  \* _get_token: data.get("expires_in", 3600)

GRAPH_BASE == "https://graph.microsoft.com/v1.0"

\* int() on the header values of the model.
ParseInt(text) ==
    CASE text = "2"  -> 2
      [] text = "10" -> 10
      [] text = "120" -> 120

EmptyDict == <<>>

HasKey(dict, key) == key \in DOMAIN dict

\* dict.get(key, default)
DictGetOr(dict, key, default) == IF HasKey(dict, key) THEN dict[key] ELSE default

\* GraphApiError(status_code, message, error_code)
GraphApiError(status_code, message, error_code) ==
    [status_code |-> status_code, message |-> message, error_code |-> error_code]

\* An HTTP response: status, the Retry-After header (<<>> when absent), the
\* body as text, and the object the body parses to (<<>> when the body is
\* empty or is not JSON).
Response(status, retry_after, text, parsed) ==
    [status_code |-> status, retry_after |-> retry_after, text |-> text,
     parsed |-> parsed]

\* path.startswith("/") on the paths of the model: the link of a next page
\* is absolute, every path the client builds itself starts with "/".
StartsWithSlash(path) ==
    path \in {"/users/a@d", "/users/u1", "/groups/g1", "/groups/g1/members"}

\* url = f"{_GRAPH_BASE}{path}" if path.startswith("/") else path
url_of(path) == IF StartsWithSlash(path) THEN GRAPH_BASE \o path ELSE path

\* The cached branch without its margin.
token_cached_NoMargin(c, t) == c.token # <<>> /\ t < c.token_expires

\* _get_token, the cached branch: a token is held and is more than 60 s
\* away from its expiry.
token_cached(c, t) == c.token # <<>> /\ t < c.token_expires - TOKEN_MARGIN

\* _get_token, the client after it returned: unchanged when the token is
\* cached, else holding the token the endpoint issued (grant is the
\* endpoint's 200 answer: the serial of the token and expires_in, <<>> when
\* the answer has none).
got_token(c, t, grant) ==
    IF token_cached(c, t)
    THEN c
    ELSE [token |-> <<grant.serial>>,
          token_expires |-> t + (IF grant.expires_in = <<>>
                                 THEN DEFAULT_EXPIRES_IN
                                 ELSE grant.expires_in[1])]

\* The token request _get_token sends, as the log holds it; none when cached.
token_requests(c, t, status) ==
    IF token_cached(c, t) THEN <<>> ELSE <<<<"token", status, t>>>>

\* The error _get_token raises on an answer other than 200.
token_error(response) ==
    IF HasKey(response.parsed, "error_description")
    THEN GraphApiError(response.status_code, response.parsed["error_description"],
                       DictGetOr(response.parsed, "error", ""))
    ELSE GraphApiError(response.status_code, response.text,
                       DictGetOr(response.parsed, "error", ""))

\* The header ignored: always the default.
retry_after_of_Default(response) == DEFAULT_RETRY_AFTER

\* int(resp.headers.get("Retry-After", _DEFAULT_RETRY_AFTER))
retry_after_of(response) ==
    IF response.retry_after = <<>>
    THEN DEFAULT_RETRY_AFTER
    ELSE ParseInt(response.retry_after[1])

\* A 404 let through as if it were a success.
request_raises_Not404(response) ==
    response.status_code # 204 /\ response.status_code >= 400
        /\ response.status_code # 404

\* _request on a response that is not a 429: what it does with it.
\* 204 -> {}; status >= 400 -> GraphApiError(status, message or text, code);
\* empty content -> {}; else the parsed body.
request_raises(response) == response.status_code # 204 /\ response.status_code >= 400

request_error(response) ==
    LET error == DictGetOr(response.parsed, "error", EmptyDict)
        message == DictGetOr(error, "message", "")
    IN  GraphApiError(response.status_code,
                      IF message # "" THEN message ELSE response.text,
                      DictGetOr(error, "code", ""))

request_value(response) ==
    IF response.status_code = 204 \/ response.text = ""
    THEN EmptyDict
    ELSE response.parsed

\* A loop that makes one pass more.
may_attempt_OneMore(f) == f.attempt <= MAX_RETRIES

\* for attempt in range(_MAX_RETRIES): the loop makes another pass.
may_attempt(f) == f.attempt < MAX_RETRIES

\* raise GraphApiError(429, "Throttling: max retries erreicht")
retries_exhausted == GraphApiError(429, "Throttling: max retries erreicht", "")


(***************************************************************************)
(* The operations of the client the model calls, and what each makes of    *)
(* the value _request returns or the error it raises.                      *)
(***************************************************************************)
Ops == {"update_user", "find_user_by_upn", "get_group", "get_members"}

\* The arguments of the first (or only) _request of an operation.
first_request(op) ==
    CASE op = "update_user" ->
           [method |-> "PATCH", path |-> "/users/u1", json |-> "updates", params |-> None]
      [] op = "find_user_by_upn" ->
           [method |-> "GET", path |-> "/users/a@d", json |-> None, params |-> "$select"]
      [] op = "get_group" ->
           [method |-> "GET", path |-> "/groups/g1", json |-> None, params |-> "$select"]
      [] op = "get_members" ->
           [method |-> "GET", path |-> "/groups/g1/members", json |-> None,
            params |-> "$select"]

IsLookup(op) == op \in {"find_user_by_upn", "get_group"}

IsPaged(op) == op = "get_members"

Returned(kind, value) == [outcome |-> "returned", kind |-> kind, value |-> value]

Raised(error) == [outcome |-> "raised", kind |-> "GraphApiError", value |-> error]

Pending == [outcome |-> "pending", kind |-> "", value |-> <<>>]

\* _request_paged: results.extend(resp.get("value", []))
extended(f, value) == f.results \o DictGetOr(value, "value", <<>>)

\* Paging that stops after the first page.
paging_goes_on_Never(f, value) == FALSE

\* _request_paged: while "@odata.nextLink" in resp
paging_goes_on(f, value) == IsPaged(f.op) /\ HasKey(value, "@odata.nextLink")

\* The frame of the _request for the next page: GET on the link, no params.
next_page_frame(f, value) ==
    [f EXCEPT !.method = "GET", !.path = value["@odata.nextLink"],
              !.json = None, !.params = None, !.attempt = 0,
              !.results = extended(f, value), !.requests = @ + 1]

\* What the operation hands to its caller when its last _request returned.
returned_of(f, value) ==
    IF IsPaged(f.op)
    THEN Returned("list", extended(f, value))
    ELSE Returned("dict", value)

\* A paged operation that hands over the pages it has when a page fails.
raised_of_PartialList(f, error) ==
    IF IsPaged(f.op)
    THEN Returned("list", f.results)
    ELSE IF IsLookup(f.op) /\ error.status_code = 404
         THEN Returned("None", <<>>)
         ELSE Raised(error)

\* The lookups without their except clause.
raised_of_NoExcept(f, error) == Raised(error)

\* What the operation does with a GraphApiError of _request: the lookups
\* return None on a 404, everything else is raised on.
raised_of(f, error) ==
    IF IsLookup(f.op) /\ error.status_code = 404
    THEN Returned("None", <<>>)
    ELSE Raised(error)

(***************************************************************************)
(* What the Graph service may answer.                                      *)
(***************************************************************************)
MaxCalls == 2     \* operations called on one client
MaxPages == 3     \* pages of one listing

\* The service fills every page but the last with PageSize items; the last
\* holds what is left, which may be nothing.
PageSize == 10

LastPageSizes == {0, 4, PageSize}

Digits == <<"1", "2", "3", "4", "5", "6">>

\* The link the service puts on page k - 1 to lead to page k.
page_url(k) == GRAPH_BASE \o "/groups/g1/members?$skiptoken=" \o Digits[k]

\* The page a GET on this path asks for.
page_of(path) ==
    IF StartsWithSlash(path)
    THEN 1
    ELSE CHOOSE k \in 1..Len(Digits) : page_url(k) = path

\* The items of page k, in the service's order.
page_items(sizes, k) == [i \in 1..sizes[k] |-> <<k, i>>]

\* The body of page k: its items and, but on the last page, the next link.
page_body(sizes, k) ==
    IF k < Len(sizes)
    THEN [value |-> page_items(sizes, k), next |-> page_url(k + 1)]
    ELSE [value |-> page_items(sizes, k), next |-> ""]

\* The JSON object of a page body.
page_dict(body) ==
    IF body.next = ""
    THEN ("value" :> body.value)
    ELSE ("value" :> body.value) @@ ("@odata.nextLink" :> body.next)

PageChains ==
    UNION {{[k \in 1..n |-> IF k < n THEN PageSize ELSE last] :
               last \in LastPageSizes} : n \in 1..MaxPages}

\* The listing of the whole chain, as the service holds it.
RECURSIVE listing_from(_, _)
listing_from(sizes, k) ==
    IF k > Len(sizes) THEN <<>> ELSE page_items(sizes, k) \o listing_from(sizes, k + 1)

RetryAfterHeaders == {<<>>, <<"2">>}

\* The 429 answer of a service that sends this Retry-After header.
Throttle(header) == Response(429, header, "", <<>>)

ErrorStatuses == {401, 403, 404, 500}

ErrorObject == ("error" :> (("code" :> "Request_Failed") @@ ("message" :> "refused")))

\* An error answer with Graph's JSON error object, or with a body that is
\* no JSON.
Errors ==
    {Response(st, <<>>, "{error}", ErrorObject) : st \in ErrorStatuses}
    \cup {Response(st, <<>>, "Bad Gateway", <<>>) : st \in ErrorStatuses}

\* The successful answers to a request: the page asked for, or an object,
\* an empty body or 204.
Successes(f, sizes) ==
    IF IsPaged(f.op)
    THEN {Response(200, <<>>, "{page}", page_dict(page_body(sizes, page_of(f.path))))}
    ELSE {Response(200, <<>>, "{object}", ("id" :> "x1")),
          Response(200, <<>>, "", <<>>),
          Response(204, <<>>, "", <<>>)}

\* The token endpoint's answers: 200 with or without expires_in, or an
\* error, with the OAuth error object or a body that is no JSON.
Grants == {[expires_in |-> e] : e \in {<<>>, <<3600>>}}

TokenErrors ==
    {Response(st, <<>>, "{error}",
              ("error" :> "invalid_client") @@ ("error_description" :> "bad secret")) :
        st \in {400, 401}}
    \cup {Response(st, <<"120">>, "Too Many Requests", <<>>) : st \in {404, 429, 500}}

\* Seconds between two calls on the client.
Pauses == {0, 3535}


(***************************************************************************)
(* ClientSpec: operations called one after the other on one GraphClient,   *)
(* against a service that answers every request as it likes.  One step per *)
(* pass of the retry loop of _request (the token check, the token request  *)
(* if one is due, the resource request and what follows from its answer).  *)
(* log holds the exchanges of the latest _request of the operation:         *)
(*   <<"token", status, time>>                                             *)
(*   <<"http", method, url, json, params, token, status, time, body>>      *)
(*   <<"sleep", seconds>>                                                  *)
(***************************************************************************)
ClientInit ==
    /\ GuiUnused
    /\ pc = "idle"
    /\ client = [token |-> <<>>, token_expires |-> 0]
    /\ server = [issued |-> 0, pages |-> <<>>, retry_after |-> <<>>]
    /\ now = 0
    /\ frame = [op |-> "", method |-> "", path |-> "", json |-> None,
                params |-> None, attempt |-> 0, results |-> <<>>,
                requests |-> 0, done |-> 0]
    /\ log = <<>>
    /\ results = Pending
    /\ config = None
    /\ all_students = None
    /\ teachers = None
    /\ users = None
    /\ groups = None
    /\ plugin = None
    /\ changes = None
    /\ EngineUnused

ClientUnchanged ==
    /\ UNCHANGED <<config, all_students, teachers, users, groups, plugin, changes>>
    /\ UNCHANGED engineVars
    /\ UNCHANGED guiVars

\* The exchanges of the _request in progress: none yet on its first pass.
exchanges(f, l) == IF f.attempt = 0 THEN <<>> ELSE l

http_entry(f, token, response, t) ==
    <<"http", f.method, url_of(f.path), f.json, f.params, token,
      response.status_code, t, response.parsed>>

\* The token endpoint's 200 answer to the next token request.
grant_of(srv, grant) == [serial |-> srv.issued + 1, expires_in |-> grant.expires_in]

\* The service after _get_token: one more token issued unless it was cached.
issuing(srv, c, t) ==
    IF token_cached(c, t) THEN srv ELSE [srv EXCEPT !.issued = @ + 1]

\* An operation is called, some time after the one before it; the service
\* has its listing and the Retry-After header it sends during the call.
Call ==
    /\ pc = "idle"
    /\ frame.done < MaxCalls
    /\ \E op \in Ops, pause \in Pauses, header \in RetryAfterHeaders :
         \E sizes \in (IF IsPaged(op) THEN PageChains ELSE {<<>>}) :
            /\ frame' = [op |-> op,
                         method |-> first_request(op).method,
                         path |-> first_request(op).path,
                         json |-> first_request(op).json,
                         params |-> first_request(op).params,
                         attempt |-> 0, results |-> <<>>, requests |-> 1,
                         done |-> frame.done + 1]
            /\ server' = [server EXCEPT !.pages = sizes, !.retry_after = header]
            /\ now' = now + pause
    /\ log' = <<>>
    /\ results' = Pending
    /\ pc' = "request"
    /\ UNCHANGED client
    /\ ClientUnchanged

\* A refused token request taken as throttling when its status is 429:
\* sleep and go round the loop.
TokenFails_Throttled ==
    /\ pc = "request"
    /\ may_attempt(frame)
    /\ ~token_cached(client, now)
    /\ \E response \in TokenErrors :
         /\ log' = exchanges(frame, log)
                       \o <<<<"token", response.status_code, now>>>>
                       \o (IF response.status_code = 429
                           THEN <<<<"sleep", retry_after_of(response)>>>>
                           ELSE <<>>)
         /\ IF response.status_code = 429
            THEN /\ now' = now + retry_after_of(response)
                 /\ frame' = [frame EXCEPT !.attempt = @ + 1]
                 /\ pc' = pc
                 /\ UNCHANGED results
            ELSE /\ results' = raised_of(frame, token_error(response))
                 /\ pc' = "idle"
                 /\ UNCHANGED <<now, frame>>
    /\ UNCHANGED <<client, server>>
    /\ ClientUnchanged

\* _get_token has to ask for a token and the endpoint refuses: the
\* GraphApiError leaves _get_token and _request.
TokenFails ==
    /\ pc = "request"
    /\ may_attempt(frame)
    /\ ~token_cached(client, now)
    /\ \E response \in TokenErrors :
         /\ log' = Append(exchanges(frame, log), <<"token", response.status_code, now>>)
         /\ results' = raised_of(frame, token_error(response))
    /\ pc' = "idle"
    /\ UNCHANGED <<client, server, now, frame>>
    /\ ClientUnchanged

\* The resource request is answered 429: sleep and go round the loop.
Throttled ==
    /\ pc = "request"
    /\ may_attempt(frame)
    /\ \E grant \in Grants, response \in {Throttle(server.retry_after)} :
         /\ client' = got_token(client, now, grant_of(server, grant))
         /\ log' = exchanges(frame, log) \o token_requests(client, now, 200)
                       \o <<http_entry(frame, client'.token, response, now),
                            <<"sleep", retry_after_of(response)>>>>
         /\ now' = now + retry_after_of(response)
    /\ server' = issuing(server, client, now)
    /\ frame' = [frame EXCEPT !.attempt = @ + 1]
    /\ pc' = pc
    /\ UNCHANGED results
    /\ ClientUnchanged

\* The resource request is answered and _request returns its value: the
\* operation returns, or asks for the next page.
Returns ==
    /\ pc = "request"
    /\ may_attempt(frame)
    /\ \E grant \in Grants, response \in Successes(frame, server.pages) \cup Errors :
         /\ ~request_raises(response)
         /\ client' = got_token(client, now, grant_of(server, grant))
         /\ log' = exchanges(frame, log) \o token_requests(client, now, 200)
                       \o <<http_entry(frame, client'.token, response, now)>>
         /\ IF paging_goes_on(frame, request_value(response))
            THEN /\ frame' = next_page_frame(frame, request_value(response))
                 /\ pc' = pc
                 /\ UNCHANGED results
            ELSE /\ results' = returned_of(frame, request_value(response))
                 /\ pc' = "idle"
                 /\ UNCHANGED frame
    /\ server' = issuing(server, client, now)
    /\ UNCHANGED now
    /\ ClientUnchanged

\* The resource request is answered with an error status: _request raises.
Fails ==
    /\ pc = "request"
    /\ may_attempt(frame)
    /\ \E grant \in Grants, response \in Successes(frame, server.pages) \cup Errors :
         /\ request_raises(response)
         /\ client' = got_token(client, now, grant_of(server, grant))
         /\ log' = exchanges(frame, log) \o token_requests(client, now, 200)
                       \o <<http_entry(frame, client'.token, response, now)>>
         /\ results' = raised_of(frame, request_error(response))
    /\ server' = issuing(server, client, now)
    /\ pc' = "idle"
    /\ UNCHANGED <<now, frame>>
    /\ ClientUnchanged

\* The loop has made its _MAX_RETRIES passes: _request raises the 429.
Exhausted ==
    /\ pc = "request"
    /\ ~may_attempt(frame)
    /\ results' = raised_of(frame, retries_exhausted)
    /\ pc' = "idle"
    /\ UNCHANGED <<client, server, now, frame, log>>
    /\ ClientUnchanged

ClientNext ==
    \/ Call
    \/ TokenFails
    \/ Throttled
    \/ Returns
    \/ Fails
    \/ Exhausted

ClientSpec == ClientInit /\ [][ClientNext]_vars


(***************************************************************************)
(* Claims about GraphClient._request, checked under ClientSpec.            *)
(***************************************************************************)
IsHttp(entry) == entry[1] = "http"

IsSleep(entry) == entry[1] = "sleep"

IsTokenRequest(entry) == entry[1] = "token"

\* The resource requests of the latest _request, in order.
HttpEntries == SelectSeq(log, IsHttp)

Statuses == [i \in 1..Len(HttpEntries) |-> HttpEntries[i][7]]

\* The operation has ended and handed its outcome to the caller.
Ended == pc = "idle" /\ results.outcome # "pending"

\* The latest _request has returned a value: to the caller, or to
\* _request_paged, which has gone on to the next page.
RequestReturned ==
    \/ Ended /\ results.outcome = "returned" /\ results.kind # "None"
    \/ pc = "request" /\ frame.attempt = 0 /\ frame.requests > 1

LastHttp == HttpEntries[Len(HttpEntries)]

\* C13: _request sends at most _MAX_RETRIES = 3 resource requests; answered
\* 429, 429, 200 it has sent exactly 3 and returns the payload of the 200;
\* answered 429 three times it has sent exactly 3 and raises a
\* GraphApiError with status 429.
C13_RetryBound ==
    pc \in {"idle", "request"} =>
        /\ Len(HttpEntries) <= MAX_RETRIES
        /\ (Ended /\ Statuses = <<429, 429, 200>>) =>
              /\ results.outcome = "returned"
              /\ results.kind = "dict" => results.value = LastHttp[9]
              /\ results.kind = "list" =>
                    results.value = frame.results \o LastHttp[9]["value"]
        /\ (pc = "request" /\ Statuses = <<429, 429, 200>>) => RequestReturned
        /\ Ended =>
              (Statuses = <<429, 429, 429>>
                  <=> (results.outcome = "raised" /\ results.value = retries_exhausted))
        /\ (Ended /\ results.outcome = "raised" /\ results.value.status_code = 429)
              => \/ Statuses = <<429, 429, 429>>
                 \/ IsTokenRequest(log[Len(log)])

\* The service answered 429, 429, 200 and the caller got the object of the
\* third answer.
C13_Witness ==
    /\ Ended
    /\ Statuses = <<429, 429, 200>>
    /\ results = Returned("dict", ("id" :> "x1"))


\* The seconds a service sending this Retry-After header asks for; 5 when
\* it sends none.
SecondsAsked ==
    IF server.retry_after = <<>> THEN 5
    ELSE IF server.retry_after = <<"2">> THEN 2
    ELSE 0

SleepsBefore(i) == Cardinality({k \in 1..i : IsSleep(log[k])})

\* Entry i of the log is a resource request and entry j a later one for the
\* same method, URL, body and params.
SameRequest(i, j) ==
    /\ IsHttp(log[j])
    /\ log[j][2] = log[i][2]
    /\ log[j][3] = log[i][3]
    /\ log[j][4] = log[i][4]
    /\ log[j][5] = log[i][5]

\* Every 429 is followed by a sleep of the seconds asked for, which the
\* clock shows.
SleepsAsAsked ==
    \A i \in 1..Len(log) :
        (IsHttp(log[i]) /\ log[i][7] = 429) =>
            /\ i < Len(log)
            /\ log[i + 1] = <<"sleep", SecondsAsked>>
            /\ \A j \in (i + 2)..Len(log) :
                  (IsHttp(log[j]) \/ IsTokenRequest(log[j])) =>
                      log[j][IF IsHttp(log[j]) THEN 8 ELSE 3] >= log[i][8] + SecondsAsked

\* The sleep at entry i was followed by the same request again, with at most
\* a token request between them.
Retried(i) ==
    \/ i + 1 <= Len(log) /\ SameRequest(i - 1, i + 1)
    \/ i + 2 <= Len(log) /\ IsTokenRequest(log[i + 1]) /\ SameRequest(i - 1, i + 2)

\* C14 as claimed: every 429 makes the call sleep for the seconds of the
\* Retry-After header (5 when absent), and every such sleep is followed by a
\* retry of the same request.
C14_EverySleepRetried ==
    pc \in {"idle", "request"} =>
        /\ SleepsAsAsked
        /\ Ended => \A i \in 1..Len(log) : IsSleep(log[i]) => Retried(i)

\* C14 as amended: every 429 makes the call sleep for the seconds asked for;
\* the sleeps after the first and the second 429 are followed by a retry of
\* the same request unless the token request due before it is refused, and
\* the sleep after the third 429 is followed by no request: the call raises.
C14_SleepThenRetry ==
    pc \in {"idle", "request"} =>
        /\ SleepsAsAsked
        /\ \A i \in 1..Len(log) :
              IsSleep(log[i]) =>
                 /\ (SleepsBefore(i) < MAX_RETRIES /\ (Ended \/ i < Len(log))) =>
                       \/ Retried(i)
                       \/ /\ i + 1 = Len(log)
                          /\ IsTokenRequest(log[i + 1])
                          /\ log[i + 1][2] # 200
                 /\ SleepsBefore(i) = MAX_RETRIES =>
                       /\ i = Len(log)
                       /\ Ended => results = Raised(retries_exhausted)

\* A 429 with the header and the retry after it, answered for good, 2 s later.
C14_Witness ==
    /\ Ended
    /\ server.retry_after = <<"2">>
    /\ Statuses = <<429, 200>>
    /\ log[Len(log)][8] = log[1][IF IsHttp(log[1]) THEN 8 ELSE 3] + 2



\* The exchanges this pass of the retry loop adds to the log.
Added == SubSeq(log', Len(exchanges(frame, log)) + 1, Len(log'))

\* A token is held and the clock is more than 60 s before its expiry.
HeldAndFresh == client.token # <<>> /\ now < client.token_expires - 60

\* C15: in every pass of the retry loop a token request is sent only when no
\* token is held or now >= expiry - 60 s (and then it is sent, before the
\* resource request); otherwise the cached token is reused with no token
\* request; a resource request is never sent with a token that is within
\* 60 s of its expiry.
C15_TokenCaching ==
    [][pc = "request" =>
          /\ \A k \in 1..Len(Added) :
                /\ IsTokenRequest(Added[k]) => (~HeldAndFresh /\ k = 1)
                /\ IsHttp(Added[k]) =>
                      /\ Added[k][6] = client'.token
                      /\ Added[k][6] # <<>>
                      /\ Added[k][8] < client'.token_expires - 60
                      /\ HeldAndFresh => (k = 1 /\ Added[k][6] = client.token)
                      /\ ~HeldAndFresh =>
                            (k = 2 /\ Added[1] = <<"token", 200, now>>
                                   /\ Added[k][6] # client.token)
          /\ HeldAndFresh => client' = client
      ]_vars

\* The second call reused the token of the first 3535 s after it was issued,
\* was throttled, slept 5 s, and asked for a new token before its retry.
C15_Witness ==
    /\ Ended
    /\ Len(log) = 4
    /\ IsHttp(log[1]) /\ log[1][6] = <<1>> /\ log[1][8] = 3535 /\ log[1][7] = 429
    /\ log[2] = <<"sleep", 5>>
    /\ log[3] = <<"token", 200, 3540>>
    /\ IsHttp(log[4]) /\ log[4][6] = <<2>> /\ log[4][8] = 3540
    /\ client = [token |-> <<2>>, token_expires |-> 7140]



\* Entry of the log: a token request the endpoint answered with another
\* status than 200.
IsRefusal(entry) == IsTokenRequest(entry) /\ entry[2] # 200

\* This pass of the retry loop asked for a token and was refused.
TokenRefused == pc = "request" /\ Len(Added) > 0 /\ IsRefusal(Added[1])

\* The outcome of an operation whose _request raised a GraphApiError with
\* this status: the error, or None from a lookup when the status is 404.
OutcomeOfStatus(outcome, f, status) ==
    IF IsLookup(f.op) /\ status = 404
    THEN outcome = Returned("None", <<>>)
    ELSE outcome.outcome = "raised" /\ outcome.value.status_code = status

\* C16: a token request answered with any status but 200 (429 included) ends
\* _request at once with a GraphApiError of that status: the pass sends no
\* resource request and does not sleep, the clock and the cached token and
\* expiry are unchanged, and nothing follows the refusal in the log.
C16_TokenFailureFatal ==
    [][/\ TokenRefused =>
             /\ Len(Added) = 1
             /\ client' = client
             /\ now' = now
             /\ pc' = "idle"
             /\ OutcomeOfStatus(results', frame, Added[1][2])
       /\ \A i \in 1..Len(log') :
             IsRefusal(log'[i]) => (i = Len(log') /\ pc' = "idle")
      ]_vars

\* The token ran out during the sleep after a 429 and the endpoint answered
\* the token request before the retry with 429: the call raised it and still
\* holds the first token.
C16_Witness ==
    /\ Ended
    /\ Len(log) = 3
    /\ IsHttp(log[1]) /\ log[1][7] = 429
    /\ log[2] = <<"sleep", 5>>
    /\ log[3] = <<"token", 429, 3540>>
    /\ results = Raised(GraphApiError(429, "Too Many Requests", ""))
    /\ client = [token |-> <<1>>, token_expires |-> 3600]
    /\ now = 3540



\* The GraphApiError the provider's answer in this entry of the log stands
\* for: its status, and the message and code of its error object, or its
\* text when the body is no JSON.
ProviderError(entry) ==
    IF HasKey(entry[9], "error")
    THEN GraphApiError(entry[7], entry[9]["error"]["message"], entry[9]["error"]["code"])
    ELSE GraphApiError(entry[7], "Bad Gateway", "")

\* C17: a 204 or a successful answer with an empty body makes _request
\* return {}; an answer with a status >= 400 other than 429 makes it raise a
\* GraphApiError with the provider's status, error code and message, and
\* that request is the last one: only answers of 429 are followed by
\* another request.  (A lookup hands a 404 on as None.)
C17_StatusMapping ==
    (pc \in {"idle", "request"} /\ Len(HttpEntries) > 0) =>
        /\ \A i \in 1..(Len(HttpEntries) - 1) : Statuses[i] = 429
        /\ (LastHttp[7] = 204 \/ (LastHttp[7] < 400 /\ LastHttp[9] = <<>>)) =>
              /\ Ended
              /\ results = Returned("dict", <<>>)
        /\ (LastHttp[7] >= 400 /\ LastHttp[7] # 429) =>
              /\ Ended
              /\ log[Len(log)] = LastHttp
              /\ results = IF IsLookup(frame.op) /\ LastHttp[7] = 404
                           THEN Returned("None", <<>>)
                           ELSE Raised(ProviderError(LastHttp))

\* One request, answered 403 with Graph's error object: the caller has the
\* error with its status, message and code.
C17_Witness ==
    /\ Ended
    /\ Statuses = <<403>>
    /\ results = Raised(GraphApiError(403, "refused", "Request_Failed"))



\* The status of the last exchange of the log: of a resource request or of
\* a token request.
LastStatus ==
    IF IsHttp(log[Len(log)]) THEN log[Len(log)][7] ELSE log[Len(log)][2]

\* C18: find_user_by_upn and get_group return None when the answer is 404
\* and never raise a GraphApiError with status 404; they return None in no
\* other case, and on any other error status they raise the GraphApiError
\* that _request raised.
C18_NotFoundIsAbsence ==
    (Ended /\ IsLookup(frame.op)) =>
        /\ (Len(HttpEntries) > 0 /\ log[Len(log)] = LastHttp /\ LastHttp[7] = 404)
              => results = Returned("None", <<>>)
        /\ results.outcome = "raised" => results.value.status_code # 404
        /\ results.kind = "None" =>
              (Len(log) > 0 /\ ~IsSleep(log[Len(log)]) /\ LastStatus = 404)
        /\ (Len(HttpEntries) > 0 /\ log[Len(log)] = LastHttp
               /\ LastHttp[7] >= 400 /\ LastHttp[7] # 404)
              => results = Raised(ProviderError(LastHttp))
        /\ Statuses = <<429, 429, 429>> => results = Raised(retries_exhausted)

\* get_group was answered 404 and returned None.
C18_Witness ==
    /\ Ended
    /\ frame.op = "get_group"
    /\ Statuses = <<404>>
    /\ results = Returned("None", <<>>)



(***************************************************************************)
(* ClientLiveSpec: ClientSpec with the client running on.  A pass of the   *)
(* retry loop that can be made is made: every HTTP request of the client   *)
(* is answered (the requests carry a timeout), and the sleeps end.         *)
(***************************************************************************)
ClientStep == TokenFails \/ Throttled \/ Returns \/ Fails \/ Exhausted

ClientLiveSpec == ClientSpec /\ WF_vars(ClientStep)

\* The items of the first n pages of the chain, in the service's order.
listing_upto(sizes, n) == listing_from(SubSeq(sizes, 1, n), 1)

\* Items i < j of a listing are in the service's order: by page, then by
\* place on the page.
InServerOrder(items) ==
    \A i, j \in 1..Len(items) :
        i < j => \/ items[i][1] < items[j][1]
                 \/ items[i][1] = items[j][1] /\ items[i][2] < items[j][2]

\* _request_paged is at page frame.requests of the chain, which it asks for
\* with a GET on the path of the operation or on the link of the page
\* before, and has gathered the items of the pages before it.
PagingInStep ==
    /\ frame.requests \in 1..Len(server.pages)
    /\ frame.method = "GET"
    /\ frame.path = (IF frame.requests = 1
                     THEN "/groups/g1/members"
                     ELSE page_url(frame.requests))
    /\ frame.requests > 1 => frame.params = None
    /\ frame.results = listing_upto(server.pages, frame.requests - 1)

\* What _request_paged returned is the whole listing, got with one _request
\* per page.
PagedResultComplete ==
    /\ results.kind = "list"
    /\ results.value = listing_from(server.pages, 1)
    /\ InServerOrder(results.value)
    /\ frame.requests = Len(server.pages)
    /\ server.pages = <<10, 10, 4>> => Len(results.value) = 24

\* C19: _request_paged follows @odata.nextLink from page to page with one
\* GET request per page (repeated only when answered 429) and returns the
\* concatenation of the value arrays of all pages in the service's order;
\* pages of 10, 10 and 4 items give 24 items; and the call ends for every
\* chain of pages.
C19_PagedListing ==
    /\ []((pc \in {"idle", "request"} /\ IsPaged(frame.op)) =>
            /\ pc = "request" => PagingInStep
            /\ (Ended /\ results.outcome = "returned") => PagedResultComplete)
    /\ ((pc = "request" /\ IsPaged(frame.op)) ~> Ended)

\* Three pages of 10, 10 and 4 items, the second got at the second attempt:
\* the caller has the 24 items, in order.
C19_Witness ==
    /\ Ended
    /\ frame.op = "get_members"
    /\ server.pages = <<10, 10, 4>>
    /\ frame.requests = 3
    /\ results.outcome = "returned"
    /\ Len(results.value) = 24
    /\ results.value[1] = <<1, 1>>
    /\ results.value[11] = <<2, 1>>
    /\ results.value[24] = <<3, 4>>
    /\ Statuses = <<429, 200>>



\* The latest _request of the operation failed: it was refused a token, or
\* answered with an error status, or throttled to the bound.
PageRequestFailed ==
    /\ Len(log) > 0
    /\ \/ IsRefusal(log[Len(log)])
       \/ IsHttp(log[Len(log)]) /\ log[Len(log)][7] >= 400
       \/ Statuses = <<429, 429, 429>>

\* C20: a paged operation whose request for any page fails raises and hands
\* no list to its caller; every list it does hand over holds all pages of
\* the listing, the trailing ones included.
C20_NoPartialListing ==
    (Ended /\ IsPaged(frame.op)) =>
        /\ PageRequestFailed <=> results.outcome = "raised"
        /\ results.outcome = "raised" =>
              /\ results.kind = "GraphApiError"
              /\ HasKey(results.value, "status_code")
              /\ ~HasKey(results.value, "value")
        /\ results.outcome = "returned" =>
              /\ results.kind = "list"
              /\ frame.requests = Len(server.pages)
              /\ Len(results.value) = Len(listing_from(server.pages, 1))
              /\ \A k \in 1..Len(server.pages) :
                    \A i \in 1..server.pages[k] :
                        \E n \in 1..Len(results.value) : results.value[n] = <<k, i>>
        /\ frame.requests < Len(server.pages) => results.outcome = "raised"

\* The first page of three was fetched, the request for the second was
\* answered 500: get_members raised, with the 10 items of the first page
\* gathered and handed to nobody.
C20_Witness ==
    /\ Ended
    /\ frame.op = "get_members"
    /\ Len(server.pages) = 3
    /\ frame.requests = 2
    /\ Len(frame.results) = 10
    /\ Statuses = <<500>>
    /\ results = Raised(GraphApiError(500, "Bad Gateway", ""))

(***************************************************************************)
(* core/graph_client.py  GraphClient.batch, and BatchSpec:                 *)
(* _apply_member_changes_batched run on lists of member changes longer     *)
(* than one batch, against a service that answers every batch as it likes. *)
(* One step per batch call.  log holds the batch calls that went out:      *)
(*   <<"batch", requests, sub-responses, "answered">>                      *)
(*   <<"batch", requests, <<>>, "GraphApiError">>                          *)
(*   <<"batch", requests, <<>>, "ConnectionError">>                        *)
(* and frame.outcome the exception that left the call, if one did.         *)
(***************************************************************************)
\* GraphClient.batch before it sends: [] for an empty list, ValueError for
\* a list longer than _BATCH_LIMIT, else POST /$batch.
batch_outcome(requests_list) ==
    IF requests_list = <<>> THEN "empty"
    ELSE IF Len(requests_list) > BATCH_LIMIT THEN "ValueError"
    ELSE "sent"

requests_of(slice) == [k \in 1..Len(slice) |-> slice[k].request]

MaxMembers == 45    \* longest list of member changes

\* The plugin holds the id of the SuS group of 5A and of no other group.
BatchPlugin ==
    [NewPlugin EXCEPT !.sus_cache =
        (cache_key(DefaultConfig.group_sus_template, "5A") :> "g1")]

\* Member change i (from 1) of a list: a removal from the KuK group of 5A;
\* in a mixed list every third change is an addition to a group of which
\* the plugin holds no id, and the one after it an addition to the SuS
\* group of 5A.
BatchChange(i, mixed) ==
    LET uid == "u" \o str(i)
    IN  IF mixed /\ i % 3 = 0
        THEN member_change("sus", "9Z",
                           group_name_of(DefaultConfig.group_sus_template, "9Z"),
                           None, "add_member", "add", uid, <<>>)
        ELSE IF mixed /\ i % 3 = 1
        THEN member_change("sus", "5A",
                           group_name_of(DefaultConfig.group_sus_template, "5A"),
                           "g1", "add_member", "add", uid, <<>>)
        ELSE member_change("kuk", "5A",
                           group_name_of(DefaultConfig.group_kuk_template, "5A"),
                           "g2", "remove_member", "rm", uid, <<>>)

BatchChangeLists ==
    {[i \in 1..n |-> BatchChange(i, mixed)] : n \in 0..MaxMembers, mixed \in BOOLEAN}

\* How the service may answer the requests of one batch: every one done, in
\* the order sent or in the reverse order; the first one refused, the
\* sub-responses in either order; the last one left out.
AnswerModes == {"in_order", "reversed", "first_fails", "reversed_first_fails",
                "last_missing"}

sub_responses(requests, mode) ==
    LET n == Len(requests)
        done == [k \in 1..n |-> [id |-> requests[k].id, status |-> "204"]]
        failed == [k \in 1..n |->
                     [id |-> requests[k].id,
                      status |-> IF k = 1 THEN "HTTP 500" ELSE "204"]]
    IN  CASE mode = "in_order" -> done
          [] mode = "reversed" -> [k \in 1..n |-> done[n + 1 - k]]
          [] mode = "first_fails" -> failed
          [] mode = "reversed_first_fails" -> [k \in 1..n |-> failed[n + 1 - k]]
          [] mode = "last_missing" -> SubSeq(done, 1, n - 1)

\* Lengths of the lists GraphClient.batch is called with directly.
DirectLengths == {0, 1, BATCH_LIMIT, BATCH_LIMIT + 1}

BatchInit ==
    /\ pc = "ready"
    /\ config = DefaultConfig
    /\ plugin = BatchPlugin
    /\ changes \in BatchChangeLists
    /\ groups = None
    /\ results = None
    /\ log = <<>>
    /\ frame = None
    /\ all_students = None
    /\ teachers = None
    /\ users = None
    /\ EngineUnused
    /\ ClientUnused
    /\ GuiUnused

BatchUnchanged ==
    /\ UNCHANGED <<config, all_students, teachers, users, groups, plugin, changes>>
    /\ UNCHANGED engineVars
    /\ UNCHANGED <<clientVars, guiVars>>

\* _apply_member_changes_batched is entered and prepares its requests.
ApplyMemberChangesBatched ==
    /\ pc = "ready"
    /\ LET todo == prepared_of(plugin, config, changes)
       IN  /\ frame' = [prepared |-> todo, batch_start |-> 0, outcome |-> ""]
           /\ pc' = IF todo = <<>> THEN "done" ELSE "members"
    /\ results' = <<>>
    /\ UNCHANGED log
    /\ BatchUnchanged

\* GraphClient.batch is called on its own with a list of requests.
DirectBatch ==
    /\ pc = "ready"
    /\ \E n \in DirectLengths :
         /\ n <= Len(prepared_of(plugin, config, changes))
         /\ LET requests == requests_of(SubSeq(prepared_of(plugin, config, changes), 1, n))
                outcome == batch_outcome(requests)
            IN  /\ frame' = [prepared |-> requests, batch_start |-> 0,
                             outcome |-> IF outcome = "ValueError" THEN outcome ELSE ""]
                /\ results' = IF outcome = "sent"
                              THEN sub_responses(requests, "in_order")
                              ELSE <<>>
                /\ log' = IF outcome = "sent"
                          THEN <<<<"batch", requests,
                                   sub_responses(requests, "in_order"), "answered">>>>
                          ELSE <<>>
    /\ pc' = "batched"
    /\ BatchUnchanged

\* The loop over the slices: range(0, total, batch_limit).
NextSlice ==
    /\ frame' = [frame EXCEPT !.batch_start = @ + BATCH_LIMIT]
    /\ pc' = IF frame.batch_start + BATCH_LIMIT < Len(frame.prepared)
             THEN "members" ELSE "done"

\* The next slice goes to GraphClient.batch and is answered; a ValueError of
\* batch leaves _apply_member_changes_batched.
ChunkAnswered ==
    /\ pc = "members"
    /\ LET slice == batch_slice(frame.prepared, frame.batch_start)
           outcome == batch_outcome(requests_of(slice))
       IN  IF outcome = "ValueError"
           THEN /\ pc' = "raised"
                /\ results' = <<>>
                /\ frame' = [frame EXCEPT !.outcome = "ValueError"]
                /\ UNCHANGED log
           ELSE /\ \E mode \in AnswerModes :
                     LET responses == IF outcome = "empty" THEN <<>>
                                      ELSE sub_responses(requests_of(slice), mode)
                     IN  /\ results' = results \o batch_results(slice, responses, 1)
                         /\ log' = IF outcome = "empty" THEN log
                                   ELSE Append(log, <<"batch", requests_of(slice),
                                                      responses, "answered">>)
                /\ NextSlice
    /\ BatchUnchanged

\* The batch request is answered with an error status or throttled to the
\* bound: _request raises GraphApiError, every change of the slice gets a
\* failed result.
ChunkRefused ==
    /\ pc = "members"
    /\ batch_outcome(requests_of(batch_slice(frame.prepared, frame.batch_start))) = "sent"
    /\ LET slice == batch_slice(frame.prepared, frame.batch_start)
       IN  /\ results' = results \o batch_error_results(slice)
           /\ log' = Append(log, <<"batch", requests_of(slice), <<>>, "GraphApiError">>)
    /\ NextSlice
    /\ BatchUnchanged

\* The HTTP call of the batch fails (no connection, timeout): the exception
\* of the HTTP library is no GraphApiError and leaves
\* _apply_member_changes_batched with its results.
ChunkTransportFails ==
    /\ pc = "members"
    /\ batch_outcome(requests_of(batch_slice(frame.prepared, frame.batch_start))) = "sent"
    /\ log' = Append(log, <<"batch",
                            requests_of(batch_slice(frame.prepared, frame.batch_start)),
                            <<>>, "ConnectionError">>)
    /\ results' = <<>>
    /\ pc' = "raised"
    /\ frame' = [frame EXCEPT !.outcome = "ConnectionError"]
    /\ BatchUnchanged

BatchNext ==
    \/ ApplyMemberChangesBatched
    \/ DirectBatch
    \/ ChunkAnswered
    \/ ChunkRefused
    \/ ChunkTransportFails

BatchSpec == BatchInit /\ [][BatchNext]_vars

(***************************************************************************)
(* Claims about the batching of member changes, checked under BatchSpec.   *)
(***************************************************************************)
\* The changes _apply_member_changes_batched prepares a request for: an
\* add_member with a cached group id, a remove_member with a group id.
IsPrepared(ch) ==
    \/ ch.action = "remove_member" /\ ch.group_id # ""
    \/ ch.action = "add_member" /\ ch.group_type = "sus" /\ ch.class_name = "5A"

PreparedChanges == SelectSeq(changes, IsPrepared)

\* ceil(n / 20)
CeilOf20(n) == (n + 19) \div 20

\* The member ids of the requests of batch call k, in the order sent.
SentMembers(k) == [i \in 1..Len(log[k][2]) |-> log[k][2][i].member_id]

\* Batch call k carries the k-th run of 20 prepared changes, or what is left
\* of them.
IsKthSlice(k) ==
    /\ Len(log[k][2]) = (IF 20 * k <= Len(PreparedChanges)
                         THEN 20 ELSE Len(PreparedChanges) - 20 * (k - 1))
    /\ \A i \in 1..Len(log[k][2]) :
          /\ log[k][2][i].member_id = PreparedChanges[20 * (k - 1) + i].member_id
          /\ log[k][2][i].method =
                (IF PreparedChanges[20 * (k - 1) + i].action = "add_member"
                 THEN "POST" ELSE "DELETE")

Sizes == [k \in 1..Len(log) |-> Len(log[k][2])]

\* C21: _apply_member_changes_batched sends the n prepared changes in
\* ceil(n/20) batch calls, the k-th call carrying the k-th run of 20 in the
\* order of the list (45 changes: calls of 20, 20 and 5); no batch call ever
\* carries more than 20 requests or none; GraphClient.batch called with more
\* than 20 requests raises ValueError and with none returns [], sending
\* nothing in either case.
C21_Batching ==
    /\ pc \in {"members", "done", "raised"} =>
          /\ Len(log) <= CeilOf20(Len(PreparedChanges))
          /\ \A k \in 1..Len(log) : IsKthSlice(k)
          /\ frame.outcome # "ValueError"
    /\ pc = "done" =>
          /\ Len(log) = CeilOf20(Len(PreparedChanges))
          /\ Len(PreparedChanges) = 45 => Sizes = <<20, 20, 5>>
    /\ pc \in {"members", "done", "raised", "batched"} =>
          \A k \in 1..Len(log) : Len(log[k][2]) \in 1..20
    /\ pc = "batched" =>
          /\ Len(frame.prepared) = 0 =>
                (log = <<>> /\ results = <<>> /\ frame.outcome = "")
          /\ Len(frame.prepared) > 20 =>
                (log = <<>> /\ frame.outcome = "ValueError")
          /\ Len(frame.prepared) \in 1..20 =>
                (Len(log) = 1 /\ log[1][2] = frame.prepared /\ frame.outcome = "")

\* 45 removals went out in calls of 20, 20 and 5.
C21_Witness ==
    /\ pc = "done"
    /\ Len(changes) = 45
    /\ Len(PreparedChanges) = 45
    /\ Sizes = <<20, 20, 5>>
    /\ log[3][2][5].id = "44"

\* The batch call that carried the j-th prepared change.
ChunkOf(j) == (j - 1) \div 20 + 1

\* The sub-responses of batch call k that carry this id.
SubResponses(k, id) == {n \in 1..Len(log[k][3]) : log[k][3][n].id = id}

\* The j-th result is the one of the j-th prepared change: a failure when
\* its batch call failed, else what the sub-response with its id says.
ResultFromOwnChunk(j) ==
    /\ results[j].action = frame.prepared[j].change.action
    /\ results[j].group = frame.prepared[j].change.group_name
    /\ log[ChunkOf(j)][4] # "answered" => ~results[j].success
    /\ log[ChunkOf(j)][4] = "answered" =>
          (results[j].success <=>
              \E n \in SubResponses(ChunkOf(j), frame.prepared[j].request.id) :
                  log[ChunkOf(j)][3][n].status = "204")

\* The results collected so far: one for each change of each batch call
\* that went out, each from its own call.
ChunkResultsIsolated ==
    /\ Len(results) = (IF Len(log) * 20 <= Len(frame.prepared)
                       THEN Len(log) * 20 ELSE Len(frame.prepared))
    /\ \A j \in 1..Len(results) : ResultFromOwnChunk(j)

\* C22: a batch call that fails (error answer, or transport failure of the
\* HTTP call) gives every change of its chunk a result with success = false,
\* the remaining chunks are still sent, the results of the other chunks
\* depend on their own sub-responses only, and the failure never leaves
\* _apply_member_changes_batched as an exception.
C22_ChunkFailureIsolated ==
    /\ pc \in {"members", "done", "raised"} =>
          /\ pc # "raised"
          /\ ChunkResultsIsolated
    /\ pc = "done" => Len(log) = CeilOf20(Len(frame.prepared))

\* The part of C22 that holds: a batch call refused with a GraphApiError
\* fails the changes of its chunk and of no other, and the call goes on.
C22_RefusedChunkIsolated ==
    /\ pc \in {"members", "done"} => ChunkResultsIsolated
    /\ pc = "done" => Len(log) = CeilOf20(Len(frame.prepared))
    /\ pc = "raised" => frame.outcome = "ConnectionError"

\* 45 changes, the second batch call refused: 20 results done, 20 failed,
\* 5 done.
C22_RefusedWitness ==
    /\ pc = "done"
    /\ Len(results) = 45
    /\ log[1][4] = "answered" /\ log[2][4] = "GraphApiError" /\ log[3][4] = "answered"
    /\ \A j \in 1..45 : results[j].success <=> (j <= 20 \/ j > 40)

\* C23: the request ids of one _apply_member_changes_batched call are
\* pairwise distinct; the result of a change is the one its batch's
\* sub-response with the id of its request stands for, wherever the service
\* lists it: success for 204, a failure with the service's message for an
\* error, and a failure ("HTTP 0") when no sub-response carries the id.
C23_PerItemAttribution ==
    pc \in {"members", "done"} =>
        /\ \A i, j \in 1..Len(frame.prepared) :
              i # j => frame.prepared[i].request.id # frame.prepared[j].request.id
        /\ \A j \in 1..Len(results) :
              log[ChunkOf(j)][4] = "answered" =>
                 /\ SubResponses(ChunkOf(j), frame.prepared[j].request.id) = {} =>
                       (~results[j].success /\ results[j].message = "HTTP 0")
                 /\ \A n \in SubResponses(ChunkOf(j), frame.prepared[j].request.id) :
                       IF log[ChunkOf(j)][3][n].status = "204"
                       THEN /\ results[j].success
                            /\ results[j].message = frame.prepared[j].change.member_name
                       ELSE /\ ~results[j].success
                            /\ results[j].message = log[ChunkOf(j)][3][n].status

\* A batch of three answered in reverse order with the first request
\* refused: the first change failed, the second and third are done.
C23_Witness ==
    /\ pc = "done"
    /\ Len(frame.prepared) = 3
    /\ Len(log) = 1
    /\ log[1][4] = "answered"
    /\ log[1][3][1] = [id |-> frame.prepared[3].request.id, status |-> "204"]
    /\ log[1][3][3] = [id |-> frame.prepared[1].request.id, status |-> "HTTP 500"]
    /\ ~results[1].success
    /\ results[2].success
    /\ results[3].success

(***************************************************************************)
(* Claims about apply_new, apply_changes and apply_suspend, checked under  *)
(* SyncSpec.                                                               *)
(***************************************************************************)
IdsOfStudents(studs) == [i \in 1..Len(studs) |-> studs[i].school_internal_id]

ResultIds == [i \in 1..Len(results) |-> results[i].school_internal_id]

\* The results of the calls made so far: one per entity handed in, in the
\* order handed in.
OneResultPerEntity ==
    /\ pc = "new_applied" => ResultIds = IdsOfStudents(changeset.new)
    /\ pc = "changes_applied" =>
          ResultIds = IdsOfStudents(changeset.new) \o IdsOfStudents(changeset.changed)
    /\ pc = "applied" =>
          ResultIds = IdsOfStudents(changeset.new) \o IdsOfStudents(changeset.changed)
                         \o changeset.suspended

\* C24: apply_new, apply_changes and apply_suspend return one result per
\* entity handed in, in input order, and never raise: an entity whose
\* requests fail has a failed result and the entities after it are
\* processed.
C24_OneResultPerEntity ==
    /\ pc # "raised"
    /\ OneResultPerEntity

\* The part of C24 that holds: every call that returns has one result per
\* entity, in order, whatever the directory answered; apply_new raises only
\* for a new student without email.
C24_ResultsUnlessNoEmail ==
    /\ OneResultPerEntity
    /\ pc = "raised" =>
          \E i \in 1..Len(changeset.new) : Strip(changeset.new[i].email) = ""

\* apply_new on two students: the requests of the first were answered 500,
\* the second has its account.
C24_FailureThenSuccess ==
    /\ pc = "new_applied"
    /\ Len(changeset.new) = 2
    /\ Len(results) = 2
    /\ ~results[1].success /\ results[1].message = "Graph API 500"
    /\ results[2].success

IsAuthFailure(result) ==
    ~result.success /\ result.message \in {"Graph API 401", "Graph API 403"}

\* C25: an authentication failure (401 or 403, or a refused token request)
\* met by an apply call ends the run: it is the last thing the run did, and
\* no entity is processed after it.
C25_AuthFailureAborts ==
    \A i \in 1..Len(results) :
        IsAuthFailure(results[i]) => (i = Len(results) /\ pc = "raised")

\* What the code does instead: an authentication failure is a failed result
\* like any other and the next entity is tried.
C25_AuthFailureRecorded ==
    /\ pc = "new_applied"
    /\ Len(results) = 2
    /\ IsAuthFailure(results[1])
    /\ IsAuthFailure(results[2])

(***************************************************************************)
(* adapters/schild_csv.py  load and _parse_row.                            *)
(* A row is what csv.DictReader yields: a mapping from the column names of *)
(* the header to the fields of the line; a line shorter than the header    *)
(* has None in the columns it does not reach.                              *)
(***************************************************************************)
STUDENT_FIELD_VARIANTS ==
    [school_internal_id |-> <<"Interne ID-Nummer", "Interne ID", "ID-Nummer">>,
     first_name |-> <<"Vorname">>,
     last_name |-> <<"Nachname", "Name">>,
     email |-> <<"E-Mail (Schule)", "E-Mail", "Email">>,
     class_name |-> <<"Klasse", "Klassenbezeichnung">>]

\* _resolve_csv_column: the first variant that is a column of the row.
resolve_csv_column(field_name, row) ==
    LET variants == STUDENT_FIELD_VARIANTS[field_name]
        hits == {k \in 1..Len(variants) : variants[k] \in DOMAIN row}
    IN  IF hits = {} THEN None
        ELSE variants[CHOOSE k \in hits : \A m \in hits : k <= m]

\* _get_field_value: row.get(col, default).strip() raises AttributeError on
\* the None of a short line.
get_field_raises(field_name, row) ==
    /\ resolve_csv_column(field_name, row) # None
    /\ row[resolve_csv_column(field_name, row)] = None

get_field_value(field_name, row) ==
    IF resolve_csv_column(field_name, row) = None THEN ""
    ELSE Strip(row[resolve_csv_column(field_name, row)])

\* _find_photo: the first of <id>.jpg, <id>.jpeg, <id>.png in the photo folder.
find_photo(files, school_internal_id) ==
    IF (school_internal_id \o ".jpg") \in DOMAIN files
    THEN school_internal_id \o ".jpg"
    ELSE IF (school_internal_id \o ".jpeg") \in DOMAIN files
    THEN school_internal_id \o ".jpeg"
    ELSE IF (school_internal_id \o ".png") \in DOMAIN files
    THEN school_internal_id \o ".png"
    ELSE None

\* The row is kept whatever its id is.
row_is_skipped_Never(row) == FALSE

\* _parse_row lines 200-202: `if not sid: return None`.
row_is_skipped(row) == get_field_value("school_internal_id", row) = ""

\* The AttributeError of a None field is not among the exceptions _parse_row
\* catches: it leaves _parse_row and load.  The id is read first, the other
\* fields only for a row that has one.
parse_row_raises(row) ==
    \/ get_field_raises("school_internal_id", row)
    \/ /\ ~row_is_skipped(row)
       /\ \E f \in {"first_name", "last_name", "email", "class_name"} :
              get_field_raises(f, row)

parse_row(files, row) ==
    IF row_is_skipped(row) THEN None
    ELSE [school_internal_id |-> get_field_value("school_internal_id", row),
          first_name |-> get_field_value("first_name", row),
          last_name |-> get_field_value("last_name", row),
          class_name |-> get_field_value("class_name", row),
          email |-> get_field_value("email", row),
          photo_path |-> find_photo(files, get_field_value("school_internal_id", row))]

load_raises(rows) == \E i \in 1..Len(rows) : parse_row_raises(rows[i])

\* load: the records of the rows that parse, in the order of the file, and
\* one warning counting the rows that were skipped.
load(files, rows) ==
    LET IsRecord(row) == ~row_is_skipped(row)
        kept == SelectSeq(rows, IsRecord)
        students == [i \in 1..Len(kept) |-> parse_row(files, kept[i])]
        skipped == Len(rows) - Len(students)
    IN  [students |-> students,
         warnings |-> IF skipped > 0
                      THEN <<[skipped |-> skipped, of |-> Len(rows)]>>
                      ELSE <<>>]

(***************************************************************************)
(* LoadSpec: the load worker reads a CSV file through the adapter and the  *)
(* compute worker hands the records to compute_changeset, for a plugin     *)
(* with compute_photo_hash (Hagen-ID) and for one without.                 *)
(***************************************************************************)
MaxRows == 2    \* most lines of the CSV file

RawIds == {"A", "B", "A ", "", " ", None}

CsvRow(id, first_name, class_name) ==
    ("Vorname" :> first_name) @@ ("Nachname" :> "Lee") @@ ("E-Mail" :> "a@d")
    @@ ("Klasse" :> class_name) @@ ("Interne ID-Nummer" :> id)

\* A line of a file that has no id column at all.
CsvRowNoId(first_name) ==
    ("Vorname" :> first_name) @@ ("Nachname" :> "Lee") @@ ("E-Mail" :> "a@d")
    @@ ("Klasse" :> "5a")

CsvRows ==
    {CsvRow(id, fn, "5a") : id \in RawIds, fn \in FirstNames}
    \cup {CsvRow("B", "Bo", None), CsvRow("", "Bo", None)}

CsvFiles ==
    SeqsUpTo(CsvRows, MaxRows) \cup SeqsUpTo({CsvRowNoId("Ann")}, MaxRows)

PhotoFolders ==
    {<<>>, ("A.jpg" :> "img1"), ("A.png" :> "img2"),
     ("A.jpg" :> "img1") @@ ("A.png" :> "img2"), ("B.jpeg" :> ""),
     ("A.jpg" :> "img1") @@ ("B.jpeg" :> "")}

PhotoHashes == {"", "sha256:img1"}

LoadManifestEntries(sid) ==
    {[school_internal_id |-> sid, data_hash |-> compute_data_hash(StudentRecord(sid, fn)),
      is_active |-> TRUE, photo_hash |-> h] : fn \in FirstNames, h \in PhotoHashes}

LoadManifests ==
    {<<>>}
    \cup {<<a>> : a \in LoadManifestEntries("A")}
    \cup {<<a, b>> : a \in LoadManifestEntries("A"),
                     b \in {e \in LoadManifestEntries("B") : e.photo_hash = ""}}

HagenIdPlugin == [api_url |-> "https://ausweis", compute_photo_hash |-> TRUE]

OtherPlugin == [api_url |-> "https://other"]

LoadInit ==
    /\ ClientUnused
    /\ GuiUnused
    /\ pc = "file"
    /\ adapter \in {[rows |-> rows, files |-> files, warnings |-> <<>>] :
                        rows \in CsvFiles, files \in PhotoFolders}
    /\ plugin \in {HagenIdPlugin, OtherPlugin}
    /\ manifest \in LoadManifests
    /\ max_suspend_percentage = DefaultThreshold
    /\ source = None
    /\ changeset = None
    /\ previous = None
    /\ config = None
    /\ all_students = None
    /\ teachers = None
    /\ users = None
    /\ groups = None
    /\ changes = None
    /\ results = None
    /\ log = None
    /\ frame = None

LoadUnchanged ==
    UNCHANGED <<config, all_students, teachers, users, groups, plugin, changes,
                results, log, frame, clientVars, guiVars>>

\* LoadWorker.run: adapter.load() returns the records.
Load ==
    /\ pc = "file"
    /\ ~load_raises(adapter.rows)
    /\ source' = load(adapter.files, adapter.rows).students
    /\ adapter' = [adapter EXCEPT
                      !.warnings = load(adapter.files, adapter.rows).warnings]
    /\ pc' = "loaded"
    /\ UNCHANGED <<manifest, max_suspend_percentage, changeset, previous>>
    /\ LoadUnchanged

\* adapter.load() is left by the AttributeError of a short line: no records,
\* no warning, and nothing to compute a diff from.
LoadRaises ==
    /\ pc = "file"
    /\ load_raises(adapter.rows)
    /\ pc' = "load_raised"
    /\ UNCHANGED engineVars
    /\ LoadUnchanged

\* PluginComputeWorker.run: compute_changeset on the loaded records.
ComputeLoaded ==
    /\ pc = "loaded"
    /\ changeset' = compute_changeset(source, manifest, max_suspend_percentage)
    /\ pc' = "diffed"
    /\ UNCHANGED <<adapter, source, manifest, max_suspend_percentage, previous>>
    /\ LoadUnchanged

LoadNext ==
    \/ Load
    \/ LoadRaises
    \/ ComputeLoaded

LoadSpec == LoadInit /\ [][LoadNext]_vars

(***************************************************************************)
(* Claims about rows without an identifier, checked under LoadSpec.        *)
(***************************************************************************)
\* The rows of the file whose id field is missing: no id column, or an id
\* that is empty once stripped.
HasNoId(row) ==
    \/ resolve_csv_column("school_internal_id", row) = None
    \/ /\ row[resolve_csv_column("school_internal_id", row)] # None
       /\ Strip(row[resolve_csv_column("school_internal_id", row)]) = ""

RowsWithId(rows) ==
    LET Keeps(row) == ~HasNoId(row)
    IN  SelectSeq(rows, Keeps)

IdsInFile ==
    {get_field_value("school_internal_id", adapter.rows[i]) :
        i \in {j \in 1..Len(adapter.rows) : ~HasNoId(adapter.rows[j])}}

Listed_In(list, sid) ==
    \E i \in 1..Len(list) : list[i].school_internal_id = sid

\* The digest the plugin computes of the photo the adapter found for the id;
\* "" when the folder has no photo of it or the plugin computes no digest.
LocalPhotoHash(sid) ==
    IF /\ "compute_photo_hash" \in DOMAIN plugin
       /\ find_photo(adapter.files, sid) # None
    THEN "sha256:" \o adapter.files[find_photo(adapter.files, sid)]
    ELSE ""

HasNewPhoto(sid) ==
    /\ LocalPhotoHash(sid) # ""
    /\ LocalPhotoHash(sid) # EntryOf(sid).photo_hash

CoreDataDiffers(sid) ==
    compute_data_hash(LastOf(sid)) # EntryOf(sid).data_hash

\* C27: for a source record that is in the manifest, being in photo_updates
\* depends on the photo alone (there is one, its digest is not empty and is
\* not the manifest's photo_hash) and being in `changed` on the core data
\* alone; so identical data with a new photo is in photo_updates only, and
\* changed data with the photo of the manifest is in `changed` only.
C27_PhotoCheckOrthogonal ==
    pc = "diffed" =>
        \A sid \in IdsOf(source) \cap IdsOf(manifest) :
            /\ Listed_In(changeset.photo_updates, sid) <=> HasNewPhoto(sid)
            /\ Listed_In(changeset.changed, sid) <=> CoreDataDiffers(sid)

\* A has changed data and the photo the manifest knows: in `changed` only;
\* B has the data of the manifest and a photo the manifest does not know:
\* in photo_updates only.
C27_Witness ==
    /\ pc = "diffed"
    /\ IdsOf(source) = {"A", "B"}
    /\ IdsOf(manifest) = {"A", "B"}
    /\ CoreDataDiffers("A")
    /\ LocalPhotoHash("A") = EntryOf("A").photo_hash
    /\ LocalPhotoHash("A") # ""
    /\ ~CoreDataDiffers("B")
    /\ HasNewPhoto("B")
    /\ IdsOf(changeset.changed) = {"A"}
    /\ IdsOf(changeset.photo_updates) = {"B"}

(***************************************************************************)
(* Claims about the recomputation of the group diff, under GroupDiffSpec.  *)
(***************************************************************************)
\* What the id of a change is to be determined by.
IdKey(ch) == <<ch.group_type, ch.class_name, ch.action, ch.member_id>>

ActionTag(action) ==
    CASE action = "create_group" -> "create"
      [] action = "add_member" -> "add:"
      [] action = "remove_member" -> "rm:"

BothLists == Range(changes) \cup (IF pc = "rediffed" THEN Range(previous) ELSE {})

\* C28: a second compute_group_diff on the same roster, teachers and target
\* returns the list the first returned; within a list no id occurs twice;
\* the id is "<group type>:<class>:<action>[:<member id>]", so two changes
\* have the same id exactly when group type, class, action and member agree.
C28_DiffDeterministic ==
    /\ pc = "rediffed" => changes = previous
    /\ Diffed =>
          /\ \A i, j \in 1..Len(changes) : i # j => changes[i].id # changes[j].id
          /\ \A a, b \in BothLists : (a.id = b.id) <=> (IdKey(a) = IdKey(b))
          /\ \A a \in BothLists :
                a.id = a.group_type \o ":" \o a.class_name \o ":"
                          \o ActionTag(a.action) \o a.member_id

\* Both runs returned the same list holding a creation, an addition and a
\* removal, and the teacher is added to the groups of two classes.
C28_Witness ==
    /\ pc = "rediffed"
    /\ changes = previous
    /\ \A action \in {"create_group", "add_member", "remove_member"} :
          \E ch \in Range(changes) : ch.action = action
    /\ \E a, b \in Range(changes) :
          /\ a.member_id = b.member_id
          /\ a.action = "add_member" /\ b.action = "add_member"
          /\ a.group_type = b.group_type
          /\ a.class_name # b.class_name

(***************************************************************************)
(* Claims about groups pending creation, under GroupDiffSpec.              *)
(***************************************************************************)
ChangesOf(class_name, group_type, action) ==
    {i \in 1..Len(changes) :
        /\ changes[i].class_name = class_name
        /\ changes[i].group_type = group_type
        /\ changes[i].action = action}

MemberRequests(requests) ==
    {i \in 1..Len(requests) : requests[i][1] = "get_members"}

ClassGroups == class_names_of(all_students) \X {"sus", "kuk"}

\* What the diff is to hold for a group that is not on the target.
PendingCreation(c, ty) ==
    /\ Cardinality(ChangesOf(c, ty, "create_group")) = 1
    /\ ChangesOf(c, ty, "remove_member") = {}
    /\ MemberIds(c, ty, "add_member") = Desired(c, ty)
    /\ Cardinality(ChangesOf(c, ty, "add_member")) = Cardinality(Desired(c, ty))
    /\ \A i \in ChangesOf(c, ty, "add_member") : changes[i].group_id = ""

\* C29: a class group that is not on the target gets one create_group, no
\* remove_member and one add_member with empty group_id per desired member;
\* a class group that is on the target gets no create_group; members are
\* requested of the groups on the target only, once each.
C29_CreateOnlyMissing ==
    Diffed =>
        /\ \A cg \in ClassGroups :
              IF OnTarget(cg[1], cg[2])
              THEN ChangesOf(cg[1], cg[2], "create_group") = {}
              ELSE PendingCreation(cg[1], cg[2])
        /\ pc = "diffed" =>
              Cardinality(MemberRequests(log))
                  = Cardinality({cg \in ClassGroups : OnTarget(cg[1], cg[2])})

\* The class groups the diff took for missing: those the plugin instance
\* holds no id of after the run.
TakenForMissing(c, ty) ==
    cache_key(template_for(config, ty), c) \notin DOMAIN cache_for(plugin, ty)

\* What holds of C29: a group the diff took for missing is handled as one
\* pending creation, a group it found gets no create_group, and every group
\* that is not on the target is taken for missing.
C29_PendingCreationHandled ==
    Diffed =>
        \A cg \in ClassGroups :
            /\ ~OnTarget(cg[1], cg[2]) => TakenForMissing(cg[1], cg[2])
            /\ IF TakenForMissing(cg[1], cg[2])
               THEN PendingCreation(cg[1], cg[2])
               ELSE ChangesOf(cg[1], cg[2], "create_group") = {}

\* Both groups of class 5A are missing, the student and the teacher have
\* accounts: two create_group and two add_member with empty group_id, and
\* no member request.
C29_MissingGroupsCreated ==
    /\ pc = "diffed"
    /\ class_names_of(all_students) = {"5A"}
    /\ ~OnTarget("5A", "sus") /\ ~OnTarget("5A", "kuk")
    /\ Desired("5A", "sus") # {} /\ Desired("5A", "kuk") # {}
    /\ PendingCreation("5A", "sus") /\ PendingCreation("5A", "kuk")
    /\ MemberRequests(log) = {}

(***************************************************************************)
(* Claims about the bulk load of the groups, under GroupDiffSpec.          *)
(***************************************************************************)
RequestsNamed(requests, names) ==
    {i \in 1..Len(requests) : requests[i][1] \in names}

Prefixes ==
    {config.group_sus_template.prefix, config.group_kuk_template.prefix} \ {""}

\* Some template has text before or after "{k}".
HasAffix ==
    \/ Prefixes # {}
    \/ config.group_sus_template.suffix # ""
    \/ config.group_kuk_template.suffix # ""

\* The requests one run may send to learn the groups: one listing per
\* distinct prefix, or one full listing, and no lookup by name.
ListedOnce(requests) ==
    /\ RequestsNamed(requests, {"find_group_by_name"}) = {}
    /\ Cardinality(RequestsNamed(requests, {"list_groups", "list_all_groups"}))
           <= (IF Prefixes # {} THEN Cardinality(Prefixes) ELSE 1)
    /\ \A i, j \in RequestsNamed(requests, {"list_groups"}) :
           i # j => requests[i] # requests[j]

\* C30: for every configuration of the templates one run of
\* compute_group_diff sends at most one listing per distinct prefix, or one
\* full listing, and no lookup of a single group by name.
C30_BulkLoadedOnce ==
    pc = "diffed" => ListedOnce(log)

\* C30 as the code has it: so it is when a template has a prefix or a
\* suffix; with both templates the bare "{k}" nothing is listed and the
\* groups are looked up by name, the SuS and the KuK group of every class.
C30_BulkLoadedOnceWithAffix ==
    pc = "diffed" =>
        IF HasAffix
        THEN ListedOnce(log)
        ELSE /\ RequestsNamed(log, {"list_groups", "list_all_groups"}) = {}
             /\ Cardinality(RequestsNamed(log, {"find_group_by_name"}))
                    = 2 * Cardinality(class_names_of(all_students))

\* Two classes, two templates with different prefixes: two listings, no
\* lookup, and changes for both classes.
C30_Witness ==
    /\ pc = "diffed"
    /\ Cardinality(Prefixes) = 2
    /\ Cardinality(class_names_of(all_students)) = 2
    /\ Cardinality(RequestsNamed(log, {"list_groups"})) = 2
    /\ RequestsNamed(log, {"find_group_by_name"}) = {}
    /\ \E a, b \in Range(changes) : a.class_name # b.class_name

(***************************************************************************)
(* Part AG.  gui/mainwindow.py, gui/plugin_card.py, gui/workers.py: the    *)
(* main window, its plugin cards and the worker threads.                   *)
(*                                                                         *)
(* window   the fields of MainWindow: _students, the load button, the      *)
(*          cards (state, changeset, excluded_ids, the two buttons), the   *)
(*          selected card, the preview tree, the message boxes shown       *)
(* thread   the QThread held in _worker_thread together with the worker    *)
(*          moved to it: where worker.run stands, the ChangeSet it works   *)
(*          on, the terminal signals it has emitted                        *)
(* events   the slot calls posted to the main thread, first in first out   *)
(* calls    the plugin methods called, in order, with their argument       *)
(* pc       the handler or step taken last                                 *)
(*                                                                         *)
(* A slot connected as a bound method of the window or of the QThread      *)
(* object is posted to the main thread.  A lambda has no receiver object:  *)
(* whether it runs at once in the emitting thread or is posted is left     *)
(* open, both happen.  Modal boxes are recorded when they are shown.  The  *)
(* settings dialog and the write-back to the source are not modelled.      *)
(*                                                                         *)
(* workers.py (lines 21, 78, 149) names the log signal of the three        *)
(* workers log_signal, the handlers (mainwindow.py lines 282, 346, 429)    *)
(* connect worker.log.  window.has_log says whether the worker answers to  *)
(* the attribute the handlers connect: FALSE is the two files as they      *)
(* stand, where the connect raises AttributeError and the handler ends     *)
(* there, before _worker_thread is set and the thread started; TRUE is the *)
(* worker with its signal under the name the handlers use.                 *)
(***************************************************************************)
MaxRuns == 3        \* worker threads started in one session

PluginKeys == {"m365", "hagen_id"}

\* The enabled plugins in the order of the settings; the first one is selected.
CardOrder == <<"m365", "hagen_id">>

NoThread ==
    [id |-> 0, kind |-> "", key |-> "", running |-> FALSE, quit |-> FALSE,
     at |-> "", cs |-> <<>>, students |-> <<>>, emitted |-> <<>>, raised |-> ""]

\* PluginCard.__init__: IDLE, no changeset, nothing excluded, buttons per state.
NewCard ==
    [state |-> "IDLE", changeset |-> <<>>, excluded_ids |-> {},
     btn_compute |-> FALSE, btn_apply |-> FALSE]

\* PluginCard._update_buttons.
update_buttons(card) ==
    [card EXCEPT
        !.btn_compute = card.state \in {"DATA_LOADED", "COMPUTED", "APPLIED"},
        !.btn_apply = /\ card.state = "COMPUTED"
                      /\ ~(card.changeset # <<>> /\ card.changeset[1].requires_force)]

\* The setters of PluginCard.state and PluginCard.changeset end in _update_ui.
set_state(card, value) == update_buttons([card EXCEPT !.state = value])

set_changeset(card, value) == update_buttons([card EXCEPT !.changeset = value])

\* MainWindow._is_busy with every thread taken for idle.
is_busy_Never(th) == FALSE

\* MainWindow._is_busy: _worker_thread is not None and isRunning().
is_busy(th) == th.kind # "" /\ th.running

disable_all_actions(w) ==
    [w EXCEPT !.btn_load = FALSE,
              !.cards = [k \in PluginKeys |->
                            [w.cards[k] EXCEPT !.btn_compute = FALSE,
                                               !.btn_apply = FALSE]]]

enable_all_actions(w) ==
    [w EXCEPT !.btn_load = TRUE,
              !.cards = [k \in PluginKeys |-> update_buttons(w.cards[k])]]

\* The child items of one category of the preview tree.
TreeItems(cat, ids) == {[cat |-> cat, sid |-> ids[i]] : i \in 1..Len(ids)}

SidsOf(seq) == [i \in 1..Len(seq) |-> seq[i].school_internal_id]

\* MainWindow._refresh_preview: the tree is rebuilt from the selected card's
\* changeset, an item unchecked where its id is in excluded_ids.
refresh_preview(w) ==
    LET card == w.cards[w.selected]
    IN  IF card.changeset = <<>>
        THEN [w EXCEPT !.tree = [items |-> {}, unchecked |-> {}]]
        ELSE LET cs == card.changeset[1]
                 items == TreeItems("new", SidsOf(cs.new))
                          \cup TreeItems("changed", SidsOf(cs.changed))
                          \cup TreeItems("suspended", cs.suspended)
                          \cup TreeItems("photo_updates", SidsOf(cs.photo_updates))
             IN  [w EXCEPT !.tree =
                     [items |-> items,
                      unchecked |-> {it \in items : it.sid \in card.excluded_ids}]]

on_card_selected(w, plugin_key) == refresh_preview([w EXCEPT !.selected = plugin_key])

\* MainWindow._sync_exclusions_from_tree.
sync_exclusions_from_tree(w) ==
    [w EXCEPT !.cards[w.selected].excluded_ids = {it.sid : it \in w.tree.unchecked}]

\* MainWindow._populate_plugin_cards: fresh cards, the first one selected.
populate_plugin_cards(w) ==
    on_card_selected(
        [w EXCEPT !.cards = [k \in PluginKeys |->
                                IF w.students # <<>>
                                THEN set_state(NewCard, "DATA_LOADED")
                                ELSE NewCard]],
        CardOrder[1])

\* The ChangeSet object with the attribute group_changes set on it or not:
\* models.py declares no such field, workers.py line 126 sets it.
WithGroupChanges(cs, group_changes) ==
    [new |-> cs.new, changed |-> cs.changed, suspended |-> cs.suspended,
     photo_updates |-> cs.photo_updates, total_in_source |-> cs.total_in_source,
     total_in_target |-> cs.total_in_target,
     suspend_percentage |-> cs.suspend_percentage,
     requires_force |-> cs.requires_force, group_changes |-> group_changes]

\* _build_filtered_changeset that passes every entry on.
build_filtered_changeset_Unfiltered(card) == WithGroupChanges(card.changeset[1], <<>>)

\* MainWindow._build_filtered_changeset: a new ChangeSet from the four lists
\* without the excluded ids and the four numbers; group_changes is not given.
build_filtered_changeset(card) ==
    LET cs == card.changeset[1]
        excluded == card.excluded_ids
        KeepS(s) == s.school_internal_id \notin excluded
        KeepId(sid) == sid \notin excluded
    IN  [new |-> SelectSeq(cs.new, KeepS),
         changed |-> SelectSeq(cs.changed, KeepS),
         suspended |-> SelectSeq(cs.suspended, KeepId),
         photo_updates |-> SelectSeq(cs.photo_updates, KeepS),
         total_in_source |-> cs.total_in_source,
         total_in_target |-> cs.total_in_target,
         suspend_percentage |-> cs.suspend_percentage,
         requires_force |-> cs.requires_force,
         group_changes |-> <<>>]

(***************************************************************************)
(* What the source adapter and the plugin answer.                          *)
(***************************************************************************)
GuiRoster == <<StudentRecord("A", "Ann"), StudentRecord("B", "Ann")>>

\* adapter.load(): the roster or an empty file.
LoadResults == {GuiRoster, <<>>}

GuiEntry(sid, fn) ==
    [school_internal_id |-> sid, data_hash |-> compute_data_hash(StudentRecord(sid, fn)),
     is_active |-> TRUE, photo_hash |-> ""]

\* plugin.get_manifest(): an empty target, one with a changed and a departed
\* student, one with two departed students, one in step with the roster.
GuiManifests ==
    {<<>>,
     <<GuiEntry("A", "Bo"), GuiEntry("C", "Ann")>>,
     <<GuiEntry("C", "Ann"), GuiEntry("D", "Ann")>>,
     <<GuiEntry("A", "Ann"), GuiEntry("B", "Ann")>>}

\* plugin.compute_group_diff(): no change, or the creation of a class group
\* and a member for it.
GuiGroupDiffs ==
    {<<>>,
     <<[action |-> "create_group", class_name |-> "5a"],
       [action |-> "add_member", class_name |-> "5a"]>>}

\* plugin.get_write_back_data().
GuiWriteBack == {<<>>, <<"A">>}

(***************************************************************************)
(* Signals.  A posted slot call is a record; the fields a slot does not    *)
(* take are empty.                                                         *)
(***************************************************************************)
Posted(slot, plugin_key, cs, students, msg) ==
    [slot |-> slot, key |-> plugin_key, cs |-> cs, students |-> students, msg |-> msg]

PostQuit == Posted("quit", "", <<>>, <<>>, "")

\* worker.finished.emit: the slots connected to it, in the order of the connects.
emit_finished(th) ==
    CASE th.kind = "load" ->
            <<Posted("on_load_done", "", <<>>, th.students, ""), PostQuit>>
      [] th.kind = "compute" ->
            <<Posted("on_plugin_compute_done", th.key, th.cs, <<>>, ""), PostQuit>>
      [] th.kind = "apply" -> <<PostQuit>>

\* worker.error.emit: the handler of the window; thread.quit follows as a bound
\* method (load) or through a lambda (compute, apply).
emit_error(th, msg) ==
    IF th.kind = "load"
    THEN <<Posted("on_load_error", "", <<>>, <<>>, msg)>>
    ELSE <<Posted("on_plugin_worker_error", th.key, <<>>, <<>>, msg)>>

\* The except clause of run with no signal emitted.
on_exception_Silent(th, msg) == [th EXCEPT !.at = "returned", !.raised = msg]

\* The except clause of run: error is emitted and run returns.
on_exception(th, msg) ==
    [th EXCEPT !.at = "returned", !.raised = msg, !.emitted = Append(@, "error")]

\* The last statement of the try block: finished is emitted and run returns.
on_success(th) == [th EXCEPT !.at = "returned", !.emitted = Append(@, "finished")]

PluginCall(method, plugin_key, arg) == [method |-> method, key |-> plugin_key, arg |-> arg]

(***************************************************************************)
(* The worker threads.                                                     *)
(***************************************************************************)
StartThread(kind, plugin_key, at, cs, students) ==
    [id |-> window.started + 1, kind |-> kind, key |-> plugin_key, running |-> TRUE,
     quit |-> FALSE, at |-> at, cs |-> cs, students |-> students,
     emitted |-> <<>>, raised |-> ""]

\* The handler from its connects on: with no attribute log on the worker the
\* first connect raises and _worker_thread stays what it was.
Started(th) == IF window.has_log THEN th ELSE thread

CountStarted(w) == IF w.has_log THEN [w EXCEPT !.started = @ + 1] ELSE w

\* The phases of PluginApplyWorker.run in their order.
ApplyPhases ==
    <<"apply_new", "apply_changes", "apply_photos", "apply_suspend",
      "write_back_check", "apply_groups">>

PhaseIndex(ph) == CHOOSE i \in 1..Len(ApplyPhases) : ApplyPhases[i] = ph

\* The if in front of a phase's plugin call; get_write_back_data is always called.
phase_due(cs, ph) ==
    CASE ph = "apply_new" -> cs.new # <<>>
      [] ph = "apply_changes" -> cs.changed # <<>>
      [] ph = "apply_photos" -> cs.photo_updates # <<>>
      [] ph = "apply_suspend" -> cs.suspended # <<>>
      [] ph = "write_back_check" -> TRUE
      [] OTHER -> FALSE

\* The first plugin call of run that follows phase number i.
next_phase(cs, i) ==
    ApplyPhases[CHOOSE j \in (i + 1)..5 :
                    /\ phase_due(cs, ApplyPhases[j])
                    /\ \A k \in (i + 1)..(j - 1) : ~phase_due(cs, ApplyPhases[k])]

\* The plugin call of a phase of PluginApplyWorker.run.
phase_call(plugin_key, cs, ph) ==
    CASE ph = "apply_new" -> PluginCall("apply_new", plugin_key, cs.new)
      [] ph = "apply_changes" -> PluginCall("apply_changes", plugin_key, cs.changed)
      [] ph = "apply_photos" -> PluginCall("apply_changes", plugin_key, cs.photo_updates)
      [] ph = "apply_suspend" -> PluginCall("apply_suspend", plugin_key, cs.suspended)
      [] ph = "write_back_check" -> PluginCall("get_write_back_data", plugin_key, <<>>)
      [] ph = "apply_groups" ->
            PluginCall("apply_group_changes", plugin_key, cs.group_changes[1])

\* The plugin call of a phase of PluginComputeWorker.run.
compute_call(plugin_key, ph) ==
    PluginCall(IF ph = "compute_changeset" THEN "get_manifest" ELSE ph, plugin_key, <<>>)

\* The signals of a run that ended in its except clause: the window's handler
\* is posted; the lambda that quits the thread runs at once or is posted, the
\* bound thread.quit of the load worker is posted.
RunRaised(msg, direct) ==
    /\ thread' = [on_exception(thread, msg) EXCEPT
                     !.quit = direct /\ thread.kind # "load"]
    /\ events' = events \o emit_error(thread, msg)
                        \o (IF direct /\ thread.kind # "load" THEN <<>> ELSE <<PostQuit>>)

WindowUnchanged == UNCHANGED <<engineVars, m365Vars, clientVars>>

\* LoadWorker.run with adapter.load() answering.
LoadWorkerRun ==
    /\ thread.running /\ thread.kind = "load" /\ thread.at = "load"
    /\ \E students \in LoadResults :
          LET th == on_success([thread EXCEPT !.students = students])
          IN  /\ thread' = th
              /\ events' = events \o emit_finished(th)
    /\ pc' = "load_worker"
    /\ UNCHANGED <<window, calls>>
    /\ WindowUnchanged

\* LoadWorker.run with the adapter raising.
LoadWorkerRaises ==
    /\ thread.running /\ thread.kind = "load" /\ thread.at = "load"
    /\ RunRaised("load", FALSE)
    /\ pc' = "load_worker_raised"
    /\ UNCHANGED <<window, calls>>
    /\ WindowUnchanged

\* PluginComputeWorker.run up to the return of its next plugin call.
ComputeWorkerStep ==
    /\ thread.running /\ thread.kind = "compute"
    /\ thread.at \in {"compute_changeset", "enrich_preview", "compute_group_diff"}
    /\ calls' = Append(calls, compute_call(thread.key, thread.at))
    /\ CASE thread.at = "compute_changeset" ->
              /\ \E man \in GuiManifests :
                    thread' = [thread EXCEPT
                        !.at = "enrich_preview",
                        !.cs = <<WithGroupChanges(
                                    compute_changeset(thread.students, man,
                                                      window.max_suspend), <<>>)>>]
              /\ UNCHANGED events
         [] thread.at = "enrich_preview" ->
              IF thread.students # <<>>
              THEN /\ thread' = [thread EXCEPT !.at = "compute_group_diff"]
                   /\ UNCHANGED events
              ELSE /\ thread' = on_success(thread)
                   /\ events' = events \o emit_finished(thread)
         [] thread.at = "compute_group_diff" ->
              \E group_changes \in GuiGroupDiffs :
                  LET th == on_success([thread EXCEPT
                                !.cs = <<WithGroupChanges(thread.cs[1],
                                                          <<group_changes>>)>>])
                  IN  /\ thread' = th
                      /\ events' = events \o emit_finished(th)
    /\ pc' = "compute_worker"
    /\ UNCHANGED window
    /\ WindowUnchanged

\* PluginComputeWorker.run with its next plugin call raising.
ComputeWorkerRaises ==
    /\ thread.running /\ thread.kind = "compute"
    /\ thread.at \in {"compute_changeset", "enrich_preview", "compute_group_diff"}
    /\ calls' = Append(calls, compute_call(thread.key, thread.at))
    /\ \E direct \in BOOLEAN : RunRaised(thread.at, direct)
    /\ pc' = "compute_worker_raised"
    /\ UNCHANGED window
    /\ WindowUnchanged

\* PluginApplyWorker.run up to the return of its next plugin call.  After
\* get_write_back_data the worker reads cs.group_changes: on a ChangeSet that
\* has no such attribute the read raises AttributeError inside the try block.
ApplyWorkerStep ==
    /\ thread.running /\ thread.kind = "apply"
    /\ thread.at \in Range(ApplyPhases)
    /\ calls' = Append(calls, phase_call(thread.key, thread.cs[1], thread.at))
    /\ LET cs == thread.cs[1]
       IN  CASE thread.at = "write_back_check" ->
                  \E data \in GuiWriteBack, direct \in BOOLEAN :
                      LET ready == IF data # <<>>
                                   THEN <<Posted("on_write_back_ready", thread.key,
                                                 <<>>, data, "")>>
                                   ELSE <<>>
                      IN  IF cs.group_changes = <<>>
                          THEN /\ thread' = [on_exception(thread, thread.at)
                                                EXCEPT !.quit = direct]
                               /\ events' = events \o ready
                                              \o emit_error(thread, thread.at)
                                              \o (IF direct THEN <<>> ELSE <<PostQuit>>)
                          ELSE IF cs.group_changes[1] # <<>>
                          THEN /\ thread' = [thread EXCEPT !.at = "apply_groups"]
                               /\ events' = events \o ready
                          ELSE /\ thread' = on_success(thread)
                               /\ events' = events \o ready \o emit_finished(thread)
             [] thread.at = "apply_groups" ->
                  /\ thread' = on_success(thread)
                  /\ events' = events \o emit_finished(thread)
             [] OTHER ->
                  /\ thread' = [thread EXCEPT
                                   !.at = next_phase(cs, PhaseIndex(thread.at))]
                  /\ UNCHANGED events
    /\ pc' = "apply_worker"
    /\ UNCHANGED window
    /\ WindowUnchanged

\* PluginApplyWorker.run with its next plugin call raising.
ApplyWorkerRaises ==
    /\ thread.running /\ thread.kind = "apply"
    /\ thread.at \in Range(ApplyPhases)
    /\ calls' = Append(calls, phase_call(thread.key, thread.cs[1], thread.at))
    /\ \E direct \in BOOLEAN : RunRaised(thread.at, direct)
    /\ pc' = "apply_worker_raised"
    /\ UNCHANGED window
    /\ WindowUnchanged

(***************************************************************************)
(* The slots of the main window.                                           *)
(***************************************************************************)
Show(w, box, plugin_key) == [w EXCEPT !.shown = Append(@, [box |-> box, key |-> plugin_key])]

on_load_done(w, students) ==
    LET w1 == [w EXCEPT !.btn_load = TRUE, !.students = students]
    IN  [w1 EXCEPT !.cards = [k \in PluginKeys |-> set_state(w1.cards[k], "DATA_LOADED")]]

on_load_error(w) == Show([w EXCEPT !.btn_load = TRUE], "critical", "")

on_plugin_compute_done(w, plugin_key, cs) ==
    LET w1 == enable_all_actions(w)
        w2 == [w1 EXCEPT !.cards[plugin_key] =
                  set_state(set_changeset(w1.cards[plugin_key], cs), "COMPUTED")]
    IN  IF w2.selected = plugin_key THEN refresh_preview(w2) ELSE w2

on_plugin_worker_error(w, plugin_key) ==
    LET w1 == enable_all_actions(w)
        card == w1.cards[plugin_key]
        w2 == IF card.state = "COMPUTING"
              THEN [w1 EXCEPT !.cards[plugin_key] = set_state(card, "DATA_LOADED")]
              ELSE IF card.state = "APPLYING"
              THEN [w1 EXCEPT !.cards[plugin_key] = set_state(card, "COMPUTED")]
              ELSE w1
    IN  Show(w2, "critical", plugin_key)

\* The information box reads "Synchronisation ... erfolgreich abgeschlossen".
on_plugin_apply_done(w, plugin_key) ==
    LET w1 == enable_all_actions(w)
        w2 == [w1 EXCEPT !.cards[plugin_key] = set_state(w1.cards[plugin_key], "APPLIED")]
    IN  Show(w2, "information", plugin_key)

on_write_back_ready(w, data) == [w EXCEPT !.pending_write_back = @ \o data]

Deliver(slot) ==
    /\ events # <<>>
    /\ Head(events).slot = slot
    /\ events' = Tail(events)
    /\ pc' = slot
    /\ UNCHANGED calls
    /\ WindowUnchanged

OnLoadDone ==
    /\ Deliver("on_load_done")
    /\ window' = on_load_done(window, Head(events).students)
    /\ UNCHANGED thread

OnLoadError ==
    /\ Deliver("on_load_error")
    /\ window' = on_load_error(window)
    /\ UNCHANGED thread

OnPluginComputeDone ==
    /\ Deliver("on_plugin_compute_done")
    /\ window' = on_plugin_compute_done(window, Head(events).key, Head(events).cs)
    /\ UNCHANGED thread

OnPluginWorkerError ==
    /\ Deliver("on_plugin_worker_error")
    /\ window' = on_plugin_worker_error(window, Head(events).key)
    /\ UNCHANGED thread

OnPluginApplyDone ==
    /\ Deliver("on_plugin_apply_done")
    /\ window' = on_plugin_apply_done(window, Head(events).key)
    /\ UNCHANGED thread

OnWriteBackReady ==
    /\ Deliver("on_write_back_ready")
    /\ window' = on_write_back_ready(window, Head(events).students)
    /\ UNCHANGED thread

\* thread.quit() posted to the main thread.
Quit ==
    /\ Deliver("quit")
    /\ thread' = [thread EXCEPT !.quit = TRUE]
    /\ UNCHANGED window

\* The event loop of the thread has been told to quit and run has returned: the
\* thread ends and emits finished, to which the apply handler has connected a
\* lambda that calls _on_plugin_apply_done.
ThreadFinished ==
    /\ thread.running /\ thread.quit /\ thread.at = "returned"
    /\ thread' = [thread EXCEPT !.running = FALSE]
    /\ IF thread.kind = "apply"
       THEN \E direct \in BOOLEAN :
               IF direct
               THEN /\ window' = on_plugin_apply_done(window, thread.key)
                    /\ UNCHANGED events
               ELSE /\ events' = Append(events, Posted("on_plugin_apply_done",
                                                       thread.key, <<>>, <<>>, ""))
                    /\ UNCHANGED window
       ELSE UNCHANGED <<window, events>>
    /\ pc' = "thread_finished"
    /\ UNCHANGED calls
    /\ WindowUnchanged

(***************************************************************************)
(* The operator: clicks on enabled buttons, on cards and in the preview.   *)
(***************************************************************************)
\* MainWindow._on_load_data.
OnLoadData ==
    /\ window.btn_load
    /\ window.started < MaxRuns \/ is_busy(thread) \/ ~window.has_log
    /\ IF is_busy(thread)
       THEN /\ pc' = "load_ignored"
            /\ UNCHANGED <<window, thread>>
       ELSE LET w1 == [window EXCEPT !.students = <<>>, !.pending_write_back = <<>>]
                w2 == populate_plugin_cards(w1)
            IN  /\ window' = CountStarted([w2 EXCEPT !.btn_load = FALSE])
                /\ thread' = Started(StartThread("load", "", "load", <<>>, <<>>))
                /\ pc' = IF window.has_log THEN "load_started" ELSE "load_raised"
    /\ UNCHANGED <<events, calls>>
    /\ WindowUnchanged

\* MainWindow._on_plugin_compute.
OnPluginCompute(plugin_key) ==
    /\ window.cards[plugin_key].btn_compute
    /\ window.started < MaxRuns \/ is_busy(thread) \/ ~window.has_log
    /\ LET w1 == on_card_selected(window, plugin_key)
       IN  IF is_busy(thread)
           THEN /\ pc' = "compute_ignored"
                /\ window' = w1
                /\ UNCHANGED <<thread, calls>>
           ELSE IF window.students = <<>>
           THEN /\ pc' = "compute_no_students"
                /\ window' = w1
                /\ UNCHANGED <<thread, calls>>
           ELSE LET w2 == [w1 EXCEPT !.cards[plugin_key] =
                              [set_state(w1.cards[plugin_key], "COMPUTING")
                                  EXCEPT !.excluded_ids = {}]]
                IN  /\ window' = CountStarted(disable_all_actions(w2))
                    /\ calls' = Append(calls, PluginCall("from_config", plugin_key, <<>>))
                    /\ thread' = Started(StartThread("compute", plugin_key,
                                     "compute_changeset", <<>>, window.students))
                    /\ pc' = IF window.has_log THEN "compute_started"
                                               ELSE "compute_raised"
    /\ UNCHANGED events
    /\ WindowUnchanged

\* MainWindow._on_plugin_apply.
OnPluginApply(plugin_key) ==
    /\ window.cards[plugin_key].btn_apply
    /\ window.started < MaxRuns \/ is_busy(thread) \/ ~window.has_log
    /\ LET w1 == on_card_selected(window, plugin_key)
           card == w1.cards[plugin_key]
       IN  IF is_busy(thread)
           THEN /\ pc' = "apply_ignored"
                /\ window' = w1
                /\ UNCHANGED <<thread, calls>>
           ELSE IF card.changeset = <<>>
           THEN /\ pc' = "apply_no_changeset"
                /\ window' = w1
                /\ UNCHANGED <<thread, calls>>
           ELSE IF card.changeset[1].requires_force
           THEN /\ pc' = "apply_blocked"
                /\ window' = Show(w1, "warning", plugin_key)
                /\ UNCHANGED <<thread, calls>>
           ELSE \E reply \in {"Yes", "No"} :
                   IF reply # "Yes"
                   THEN /\ pc' = "apply_declined"
                        /\ window' = w1
                        /\ UNCHANGED <<thread, calls>>
                   ELSE LET w2 == [w1 EXCEPT !.cards[plugin_key] =
                                      set_state(card, "APPLYING")]
                            filtered_cs == build_filtered_changeset(w2.cards[plugin_key])
                        IN  /\ window' = CountStarted(disable_all_actions(w2))
                            /\ calls' = Append(calls,
                                               PluginCall("from_config", plugin_key, <<>>))
                            /\ thread' = Started(StartThread("apply", plugin_key,
                                             next_phase(filtered_cs, 0),
                                             <<filtered_cs>>, <<>>))
                            /\ pc' = IF window.has_log THEN "apply_started"
                                                       ELSE "apply_raised"
    /\ UNCHANGED events
    /\ WindowUnchanged

\* A click on a card outside its buttons.
CardSelected(plugin_key) ==
    /\ window' = on_card_selected(window, plugin_key)
    /\ pc' = "card_selected"
    /\ UNCHANGED <<thread, events, calls>>
    /\ WindowUnchanged

\* MainWindow._on_tree_item_changed: a child item is checked or unchecked, or a
\* category item passes its new state to its children; the exclusions of the
\* selected card are then read off the tree.
OnTreeItemChanged ==
    /\ \E unchecked \in
            {window.tree.unchecked \cup {it} : it \in window.tree.items}
            \cup {window.tree.unchecked \ {it} : it \in window.tree.items}
            \cup {window.tree.unchecked \cup {it \in window.tree.items : it.cat = c}
                     : c \in {it.cat : it \in window.tree.items}}
            \cup {window.tree.unchecked \ {it \in window.tree.items : it.cat = c}
                     : c \in {it.cat : it \in window.tree.items}} :
          /\ unchecked # window.tree.unchecked
          /\ window' = sync_exclusions_from_tree(
                           [window EXCEPT !.tree.unchecked = unchecked])
    /\ pc' = "tree_item_changed"
    /\ UNCHANGED <<thread, events, calls>>
    /\ WindowUnchanged

WindowInit ==
    /\ pc = "init"
    /\ window \in
          {populate_plugin_cards(
               [students |-> <<>>, max_suspend |-> 500, btn_load |-> TRUE,
                cards |-> [k \in PluginKeys |-> NewCard], selected |-> CardOrder[1],
                tree |-> [items |-> {}, unchecked |-> {}], shown |-> <<>>,
                pending_write_back |-> <<>>, started |-> 0, has_log |-> has_log])
           : has_log \in BOOLEAN}
    /\ thread = NoThread
    /\ events = <<>>
    /\ calls = <<>>
    /\ EngineUnused
    /\ M365Unused
    /\ ClientUnused

WindowNext ==
    \/ OnLoadData
    \/ \E plugin_key \in PluginKeys : OnPluginCompute(plugin_key)
    \/ \E plugin_key \in PluginKeys : OnPluginApply(plugin_key)
    \/ \E plugin_key \in PluginKeys : CardSelected(plugin_key)
    \/ OnTreeItemChanged
    \/ LoadWorkerRun
    \/ LoadWorkerRaises
    \/ ComputeWorkerStep
    \/ ComputeWorkerRaises
    \/ ApplyWorkerStep
    \/ ApplyWorkerRaises
    \/ OnLoadDone
    \/ OnLoadError
    \/ OnPluginComputeDone
    \/ OnPluginWorkerError
    \/ OnPluginApplyDone
    \/ OnWriteBackReady
    \/ Quit
    \/ ThreadFinished

WindowSpec == WindowInit /\ [][WindowNext]_vars

(***************************************************************************)
(* C31.  One run at a time.                                                *)
(***************************************************************************)
\* What pc holds after _on_load_data, _on_plugin_compute or _on_plugin_apply
\* has run, whatever came of the request.
RequestOutcomes ==
    {"load_ignored", "load_started", "load_raised",
     "compute_ignored", "compute_no_students", "compute_started", "compute_raised",
     "apply_ignored", "apply_no_changeset", "apply_blocked", "apply_declined",
     "apply_started", "apply_raised"}

\* C31: while the worker thread is running, a load, compute or apply request,
\* for whichever card, leaves the thread and its worker as they are and calls
\* no plugin method; the window takes a new worker thread only in a step that
\* starts from a thread that is not running.
C31_OneRunAtATime ==
    [][/\ (thread.running /\ pc' \in RequestOutcomes)
             => (thread' = thread /\ calls' = calls)
       /\ thread'.id # thread.id => ~thread.running]_vars

\* A compute request for the other card has been turned down while the thread
\* of the first card's computation was still running.
C31_Witness ==
    /\ pc = "compute_ignored"
    /\ thread.running
    /\ thread.kind = "compute"
    /\ window.selected # thread.key

(***************************************************************************)
(* C32.  Every run of a plugin worker ends in one terminal signal.         *)
(***************************************************************************)
\* C32: a run of PluginComputeWorker or PluginApplyWorker has emitted nothing
\* terminal while it is under way, and once it has returned it has emitted
\* exactly one signal, finished or error: error exactly when something raised
\* inside the try block, in whichever phase.
C32_OneTerminalSignal ==
    thread.kind \in {"compute", "apply"} =>
        IF thread.at = "returned"
        THEN /\ thread.emitted \in {<<"finished">>, <<"error">>}
             /\ thread.emitted = <<"error">> <=> thread.raised # ""
        ELSE thread.emitted = <<>> /\ thread.raised = ""

\* An apply run has ended with error after apply_suspend raised, the earlier
\* phases having been applied.
C32_Witness ==
    /\ thread.kind = "apply"
    /\ thread.at = "returned"
    /\ thread.raised = "apply_suspend"
    /\ thread.emitted = <<"error">>
    /\ \E i \in 1..Len(calls) : calls[i].method = "apply_changes"

(***************************************************************************)
(* C33.  The group changes of the diff phase reach the apply phase.        *)
(***************************************************************************)
\* The group changes a ChangeSet carries; one without the attribute counts as
\* carrying none.
GroupChangesOf(cs) == IF cs.group_changes = <<>> THEN <<>> ELSE cs.group_changes[1]

C33_GroupChangesNeverApplied ==
    \A i \in 1..Len(calls) : calls[i].method # "apply_group_changes"

(***************************************************************************)
(* C34.  apply_group_changes accounts for every change.                    *)
(***************************************************************************)
\* The member changes for which the call prepared a batch request.
SentChanges == {frame.prepared[k].change : k \in 1..Len(frame.prepared)}

\* C34: when apply_group_changes has returned, it has returned one result per
\* change, and every add_member and remove_member was either put into a batch
\* or has a failed result of its own.
C34_EveryChangeAccounted ==
    pc = "done" =>
        /\ Len(results) = Len(changes)
        /\ \A i \in 1..Len(changes) :
               changes[i].action # "create_group" =>
                   \/ changes[i] \in SentChanges
                   \/ \E k \in 1..Len(results) :
                          /\ results[k].action = changes[i].action
                          /\ results[k].group = changes[i].group_name
                          /\ ~results[k].success

\* What happens instead on a plugin instance with empty caches: the call
\* returns no result and sends no request for an add_member it was given.
C34_DroppedSilently ==
    /\ pc = "done"
    /\ plugin = NewPlugin
    /\ Len(changes) = 1
    /\ changes[1].action = "add_member"
    /\ results = <<>>
    /\ log = <<>>

(***************************************************************************)
(* C35.  After the bulk load a cache miss means that the group is missing. *)
(***************************************************************************)
\* C35: once _bulk_load_groups has set _groups_bulk_loaded, every class group
\* the plugin instance holds no id of has no group of its template-derived
\* name on the target, and the diff emits create_group for such groups only,
\* whatever the two templates are.
C35_CacheMissMeansMissing ==
    (Diffed /\ plugin.groups_bulk_loaded) =>
        \A cg \in ClassGroups :
            /\ TakenForMissing(cg[1], cg[2]) => ~OnTarget(cg[1], cg[2])
            /\ ChangesOf(cg[1], cg[2], "create_group") # {} => ~OnTarget(cg[1], cg[2])

\* One template has a prefix and the other one has none.
MixedPrefix ==
    /\ Prefixes # {}
    /\ "" \in {config.group_sus_template.prefix, config.group_kuk_template.prefix}

\* What holds of C35: the same with the templates that are not of that kind.
C35_HoldsUnlessMixedPrefix ==
    (Diffed /\ plugin.groups_bulk_loaded /\ ~MixedPrefix) =>
        \A cg \in ClassGroups :
            /\ TakenForMissing(cg[1], cg[2]) => ~OnTarget(cg[1], cg[2])
            /\ ChangesOf(cg[1], cg[2], "create_group") # {} => ~OnTarget(cg[1], cg[2])

\* The bulk load is done, the KuK group of a class is on the target under its
\* suffix-only name, and the diff asks for its creation.
C35_ExistingGroupRecreated ==
    /\ Diffed
    /\ plugin.groups_bulk_loaded
    /\ MixedPrefix
    /\ \E c \in class_names_of(all_students) :
          /\ OnTarget(c, "kuk")
          /\ ChangesOf(c, "kuk", "create_group") # {}

(***************************************************************************)
(* C36.  APPLIED and the success box only after a finished apply run.      *)
(***************************************************************************)
\* The thread is the apply thread of the card and its worker emitted finished.
ApplyFinished(plugin_key) ==
    /\ thread.kind = "apply"
    /\ thread.key = plugin_key
    /\ thread.emitted = <<"finished">>

\* The message boxes of a kind shown for a card.
Boxes(w, box, plugin_key) ==
    {i \in 1..Len(w.shown) : w.shown[i].box = box /\ w.shown[i].key = plugin_key}

C36_AppliedAfterError ==
    /\ thread.kind = "apply"
    /\ thread.emitted = <<"error">>
    /\ ~thread.running
    /\ events = <<>>
    /\ window.cards[thread.key].state = "APPLIED"
    /\ Len(window.shown) = 2
    /\ window.shown[1].box = "critical"
    /\ window.shown[2].box = "information"

\* The same with the success box shown before the error box.
C36_AppliedBeforeError ==
    /\ thread.kind = "apply"
    /\ thread.emitted = <<"error">>
    /\ ~thread.running
    /\ events = <<>>
    /\ window.cards[thread.key].state = "APPLIED"
    /\ Len(window.shown) = 2
    /\ window.shown[1].box = "information"
    /\ window.shown[2].box = "critical"

\* An apply run that ended in error always leaves the card APPLIED.
C36_ErrorEndsApplied ==
    (/\ thread.kind = "apply"
     /\ thread.emitted = <<"error">>
     /\ ~thread.running
     /\ events = <<>>)
    => window.cards[thread.key].state = "APPLIED"

(***************************************************************************)
(* C37.  The operator's exclusions are honoured by the apply phase.        *)
(***************************************************************************)
\* The ids unchecked in the preview tree.
Unchecked(w) == {it.sid : it \in w.tree.unchecked}

\* kept is what is left of ids, a list of ids, when the entries in excluded
\* are struck: the entries that are not excluded, each once, in their order.
IsRestOf(kept, ids, excluded) ==
    \E at \in [1..Len(kept) -> 1..Len(ids)] :
        /\ \A i, j \in 1..Len(kept) : i < j => at[i] < at[j]
        /\ \A i \in 1..Len(kept) : kept[i] = ids[at[i]]
        /\ {at[i] : i \in 1..Len(kept)} = {j \in 1..Len(ids) : ids[j] \notin excluded}

\* The same for a list of student dictionaries, which must be passed on whole.
IsRestOfStudents(kept, students, excluded) ==
    /\ IsRestOf(SidsOf(kept), SidsOf(students), excluded)
    /\ \A i \in 1..Len(kept) : \E j \in 1..Len(students) : kept[i] = students[j]

\* C37: the ChangeSet handed to the apply worker holds, list by list, the
\* entries of the card's computed ChangeSet whose id is not unchecked in the
\* preview, in their original order and nothing else; every apply_new,
\* apply_changes and apply_suspend the worker makes is called with one of these
\* lists; and the handler that starts a computation leaves the card with no
\* exclusions.
C37_ExclusionsHonoured ==
    [][/\ pc' = "apply_started" =>
             LET computed == window'.cards[thread'.key].changeset[1]
                 handed == thread'.cs[1]
                 excluded == Unchecked(window')
             IN  /\ IsRestOfStudents(handed.new, computed.new, excluded)
                 /\ IsRestOfStudents(handed.changed, computed.changed, excluded)
                 /\ IsRestOf(handed.suspended, computed.suspended, excluded)
                 /\ IsRestOfStudents(handed.photo_updates, computed.photo_updates,
                                     excluded)
       /\ (thread.kind = "apply" /\ Len(calls') > Len(calls)) =>
             LET call == calls'[Len(calls')]
             IN  /\ call.method = "apply_new" => call.arg = thread.cs[1].new
                 /\ call.method = "apply_changes" =>
                        call.arg \in {thread.cs[1].changed, thread.cs[1].photo_updates}
                 /\ call.method = "apply_suspend" => call.arg = thread.cs[1].suspended
       /\ pc' = "compute_started" =>
             window'.cards[thread'.key].excluded_ids = {}]_vars

\* The diff found two new students, the operator unchecked A, and the apply
\* worker has called apply_new with B alone.
C37_Witness ==
    /\ thread.kind = "apply"
    /\ SidsOf(window.cards[thread.key].changeset[1].new) = <<"A", "B">>
    /\ \E i \in 1..Len(calls) :
          /\ calls[i].method = "apply_new"
          /\ SidsOf(calls[i].arg) = <<"B">>

(***************************************************************************)
(* Part AH.  plugins/moodle.py: compute_group_diff for one course and the  *)
(* enrolments it leads to.  The specification reuses the variables of the  *)
(* group diff: all_students and teachers are the arguments, users the      *)
(* Moodle users (get_users), groups the course on the target with its      *)
(* enrolments, changes the list returned.  One subject course of class 5a  *)
(* (Mathe, teacher Kim) is looked at; categories are left out.             *)
(***************************************************************************)
role_student == 5
role_teacher == 3

MoodleUser(id, idnumber, email) == [id |-> id, idnumber |-> idnumber, email |-> email]

\* _load_users: lookups by idnumber and by lower-cased email; a later user of
\* the same key replaces an earlier one.  The users of the model carry no
\* username, so the username entries of the email lookup do not arise.
idnumber_to_user(us) ==
    [idnum \in {Strip(us[i].idnumber) : i \in 1..Len(us)} \ {""} |->
        us[CHOOSE i \in 1..Len(us) :
               /\ Strip(us[i].idnumber) = idnum
               /\ \A j \in (i + 1)..Len(us) : Strip(us[j].idnumber) # idnum]]

email_to_user(us) ==
    [email \in {Lower(Strip(us[i].email)) : i \in 1..Len(us)} \ {""} |->
        us[CHOOSE i \in 1..Len(us) :
               /\ Lower(Strip(us[i].email)) = email
               /\ \A j \in (i + 1)..Len(us) : Lower(Strip(us[j].email)) # email]]

\* course_map of the one course: the ids of the students that have it.
course_students(students) ==
    {students[i].school_internal_id :
        i \in {j \in 1..Len(students) :
                  /\ students[j].class_name # ""
                  /\ students[j].school_internal_id # ""
                  /\ students[j].courses # <<>>}}

\* The user ids enrolled in the course with a role.
enrolled_as(course, role) == {e[1] : e \in {x \in course.enrolled : x[2] = role}}

RECURSIVE SortedInts(_)
SortedInts(S) ==
    IF S = {} THEN <<>>
    ELSE LET least == CHOOSE x \in S : \A y \in S : x <= y
         IN  <<least>> \o SortedInts(S \ {least})

SidOrder == <<"s1", "s2", "s3">>

SortedSids(S) == LET In(sid) == sid \in S IN SelectSeq(SidOrder, In)

enrol_change(course, action, member_id, role_id) ==
    [group_type |-> "course", group_id |-> course.id, action |-> action,
     member_id |-> member_id, role_id |-> role_id]

\* Lines 639-671: for an existing course, every user enrolled as a student
\* who is not among the expected ones is unenrolled, in the order of the ids.
moodle_removals(course, student_ids, by_idnumber, enrolled_ids) ==
    IF course.id = 0 THEN <<>>
    ELSE LET expected == {by_idnumber[sid].id : sid \in student_ids \cap DOMAIN by_idnumber}
             extra == SortedInts(enrolled_ids \ expected)
         IN  [k \in 1..Len(extra) |-> enrol_change(course, "remove_member", extra[k], 0)]

\* Lines 551-671 of compute_group_diff for the course: the enrolments are
\* read (readable says whether get_enrolled_users answered), the teacher is
\* enrolled as trainer when resolved and not yet one, the resolvable students
\* that are not enrolled are enrolled, the surplus students unenrolled.
moodle_diff_course(course, readable, student_ids, teacher_name, ts, us) ==
    LET by_idnumber == idnumber_to_user(us)
        by_email == email_to_user(us)
        known == course.id # 0 /\ readable
        enrolled_ids == IF known THEN enrolled_as(course, role_student) ELSE {}
        enrolled_teacher_ids == IF known THEN enrolled_as(course, role_teacher) ELSE {}
        emails == teacher_name_to_email(ts)
        teacher_surname == Lower(Strip(teacher_name))
        teacher_user == IF teacher_surname \in DOMAIN emails
                           /\ emails[teacher_surname] \in DOMAIN by_email
                        THEN <<by_email[emails[teacher_surname]]>> ELSE <<>>
        trainer == IF teacher_user # <<>> /\ teacher_user[1].id \notin enrolled_teacher_ids
                   THEN <<enrol_change(course, "add_member", teacher_user[1].id,
                                       role_teacher)>>
                   ELSE <<>>
        Missing(sid) == /\ sid \in DOMAIN by_idnumber
                        /\ by_idnumber[sid].id \notin enrolled_ids
        missing == SelectSeq(SortedSids(student_ids), Missing)
    IN  trainer
        \o [k \in 1..Len(missing) |->
               enrol_change(course, "add_member", by_idnumber[missing[k]].id,
                            role_student)]
        \o moodle_removals(course, student_ids, by_idnumber, enrolled_ids)

\* apply_group_changes on the enrolment changes of an existing course, every
\* call answered: enrol_users gives the user the role, unenrol_users takes the
\* user out of the course.
RECURSIVE moodle_apply(_, _)
moodle_apply(course, chs) ==
    IF chs = <<>> THEN course
    ELSE LET ch == Head(chs)
             next == IF ch.action = "add_member"
                     THEN [course EXCEPT !.enrolled = @ \cup {<<ch.member_id, ch.role_id>>}]
                     ELSE [course EXCEPT !.enrolled = {e \in @ : e[1] # ch.member_id}]
         IN  moodle_apply(next, Tail(chs))

(***************************************************************************)
(* Inputs: three pupils of 5a with or without the course, the teacher Kim  *)
(* with or without email, four Moodle users, any enrolment of them.        *)
(***************************************************************************)
MoodleStudent(sid, has_course) ==
    [school_internal_id |-> sid, class_name |-> "5a",
     courses |-> IF has_course
                 THEN <<[course_name |-> "Mathe", teacher_name |-> "Kim"]>>
                 ELSE <<>>]

MoodleRosters ==
    {<<MoodleStudent("s1", TRUE), MoodleStudent("s2", c2), MoodleStudent("s3", c3)>> :
        c2, c3 \in BOOLEAN}

MoodleTeacherLists ==
    {<<[last_name |-> "Kim", email |-> email, job_title |-> "StR"]>> :
        email \in {"Kim@d", ""}}

\* s3 has no Moodle account; user 4 is nobody of the source.
MoodleUsers ==
    <<MoodleUser(1, "s1", "a@d"), MoodleUser(2, "s2", "b@d"),
      MoodleUser(3, "", "kim@d"), MoodleUser(4, "", "x@d")>>

MoodleEnrolments == SUBSET ({1, 3, 4} \X {role_student, role_teacher})

MoodleInit ==
    /\ pc = "fresh"
    /\ all_students \in MoodleRosters
    /\ teachers \in MoodleTeacherLists
    /\ users = MoodleUsers
    /\ groups \in {[id |-> 7, enrolled |-> e] : e \in MoodleEnrolments}
    /\ changes = None
    /\ config = None
    /\ plugin = None
    /\ results = None
    /\ log = None
    /\ frame = None
    /\ EngineUnused
    /\ ClientUnused
    /\ GuiUnused

MoodleUnchanged ==
    /\ UNCHANGED <<config, all_students, teachers, users, plugin, results, log, frame>>
    /\ UNCHANGED <<engineVars, clientVars, guiVars>>

\* compute_group_diff with the enrolments of the course read.
MoodleComputeGroupDiff ==
    /\ pc = "fresh"
    /\ changes' = moodle_diff_course(groups, TRUE, course_students(all_students),
                                     "Kim", teachers, users)
    /\ pc' = "diffed"
    /\ UNCHANGED groups
    /\ MoodleUnchanged

\* compute_group_diff with get_enrolled_users raising MoodleApiError: a
\* warning is issued and the course is taken to have no enrolments.
MoodleComputeGroupDiffUnread ==
    /\ pc = "fresh"
    /\ changes' = moodle_diff_course(groups, FALSE, course_students(all_students),
                                     "Kim", teachers, users)
    /\ pc' = "diffed_unread"
    /\ UNCHANGED groups
    /\ MoodleUnchanged

\* apply_group_changes with the changes of the diff, every call answered.
MoodleApplyGroupChanges ==
    /\ pc \in {"diffed", "diffed_unread"}
    /\ groups' = moodle_apply(groups, changes)
    /\ pc' = IF pc = "diffed" THEN "applied" ELSE "applied_unread"
    /\ UNCHANGED changes
    /\ MoodleUnchanged

MoodleNext ==
    \/ MoodleComputeGroupDiff
    \/ MoodleComputeGroupDiffUnread
    \/ MoodleApplyGroupChanges

MoodleSpec == MoodleInit /\ [][MoodleNext]_vars

(***************************************************************************)
(* C38.  The Moodle diff leads to the desired enrolments.                  *)
(***************************************************************************)
\* The Moodle users of the students assigned to the course.
DesiredStudents ==
    {users[i].id : i \in {j \in 1..Len(users) :
                             users[j].idnumber \in course_students(all_students)}}

\* The Moodle user of the course teacher, if the teacher list gives an email
\* that a Moodle user has.
DesiredTrainers ==
    {users[i].id : i \in {j \in 1..Len(users) :
        \E k \in 1..Len(teachers) :
            /\ Lower(teachers[k].last_name) = "kim"
            /\ teachers[k].email # ""
            /\ Lower(teachers[k].email) = users[j].email}}

\* C38: after the changes of the diff have been applied to the enrolments of
\* the existing course, the users enrolled as students are the resolvable
\* students of the course and the users enrolled as trainers are the resolved
\* course teacher.
C38_EnrolmentsReachDesired ==
    pc = "applied" =>
        /\ enrolled_as(groups, role_student) = DesiredStudents
        /\ enrolled_as(groups, role_teacher) = DesiredTrainers

\* What holds of C38: the student role.
C38_StudentsReachDesired ==
    pc = "applied" => enrolled_as(groups, role_student) = DesiredStudents

\* A user who is not the course teacher was enrolled as trainer before the
\* run and still is after it.
C38_SurplusTrainerStays ==
    /\ pc = "applied"
    /\ 4 \in enrolled_as(groups, role_teacher)
    /\ 4 \notin DesiredTrainers
    /\ enrolled_as(groups, role_student) = DesiredStudents

(***************************************************************************)
(* Part AI.  plugins/hagen_id.py: apply_new, apply_changes, apply_suspend. *)
(* Each walks over _batched(items, size) and posts one chunk per call;     *)
(* raise_for_status stands outside any try.  frame is the running call     *)
(* (method, items, position, results gathered), log the chunks the target  *)
(* has answered, results the value returned.  An entity is its id; the     *)
(* target answers a chunk with one result per entity, or with a body that  *)
(* has no "results" key, for which the code takes the empty list.          *)
(***************************************************************************)
BATCH_SIZE_NEW == 200
BATCH_SIZE_CHANGE == 200
BATCH_SIZE_SUSPEND == 500

MaxChunks == 3

HagenMethods == {"apply_new", "apply_changes", "apply_suspend"}

batch_size_of(method) ==
    CASE method = "apply_new" -> BATCH_SIZE_NEW
      [] method = "apply_changes" -> BATCH_SIZE_CHANGE
      [] method = "apply_suspend" -> BATCH_SIZE_SUSPEND

smaller(a, b) == IF a < b THEN a ELSE b

\* _batched: the slice items[i : i + size] that starts after position at.
batched(items, size, at) == SubSeq(items, at + 1, smaller(at + size, Len(items)))

\* Numbers of entities around the chunk borders.
HagenLengths(size) ==
    {k * size + d : k \in 0..(MaxChunks - 1), d \in {0, 1}} \cup {size - 1}

hagen_result(id) == [school_internal_id |-> id, success |-> TRUE]

\* resp.json().get("results", [])
results_of_response(batch, has_results) ==
    IF has_results THEN [k \in 1..Len(batch) |-> hagen_result(batch[k])] ELSE <<>>

NoFrame == [method |-> "", items |-> <<>>, at |-> 0, results |-> <<>>, bare |-> FALSE]

HagenInit ==
    /\ pc = "idle"
    /\ frame = NoFrame
    /\ log = <<>>
    /\ results = <<>>
    /\ config = None
    /\ all_students = None
    /\ teachers = None
    /\ users = None
    /\ groups = None
    /\ plugin = None
    /\ changes = None
    /\ EngineUnused
    /\ ClientUnused
    /\ GuiUnused

HagenUnchanged ==
    /\ UNCHANGED <<config, all_students, teachers, users, groups, plugin, changes>>
    /\ UNCHANGED <<engineVars, clientVars, guiVars>>

\* The call of apply_new, apply_changes or apply_suspend up to its first
\* post: with no entity the loop is not entered and [] is returned.
HagenApply(method, n) ==
    /\ pc = "idle"
    /\ frame' = [NoFrame EXCEPT !.method = method, !.items = [i \in 1..n |-> i]]
    /\ pc' = IF n = 0 THEN "returned" ELSE "running"
    /\ UNCHANGED <<log, results>>
    /\ HagenUnchanged

\* One post answered with a good status: the results of the chunk are
\* appended; after the last chunk the method returns what it gathered.
HagenChunkAnswered(has_results) ==
    /\ pc = "running"
    /\ LET size == batch_size_of(frame.method)
           batch == batched(frame.items, size, frame.at)
           gathered == frame.results \o results_of_response(batch, has_results)
           done == frame.at + Len(batch) >= Len(frame.items)
       IN  /\ log' = Append(log, batch)
           /\ frame' = [frame EXCEPT !.at = @ + Len(batch), !.results = gathered,
                                     !.bare = @ \/ ~has_results]
           /\ results' = IF done THEN gathered ELSE results
           /\ pc' = IF done THEN "returned" ELSE "running"
    /\ HagenUnchanged

\* One post that fails: session.post raises (no connection) or
\* raise_for_status raises HTTPError.  Nothing catches it: the method is
\* left by the exception and its local results list is gone.
HagenChunkFails ==
    /\ pc = "running"
    /\ pc' = "raised"
    /\ UNCHANGED <<frame, log, results>>
    /\ HagenUnchanged

HagenNext ==
    \/ \E method \in HagenMethods :
           \E n \in HagenLengths(batch_size_of(method)) : HagenApply(method, n)
    \/ \E has_results \in BOOLEAN : HagenChunkAnswered(has_results)
    \/ HagenChunkFails

HagenSpec == HagenInit /\ [][HagenNext]_vars

(***************************************************************************)
(* C39.  Chunked apply of the Hagen-ID plugin.                             *)
(***************************************************************************)
RECURSIVE Flat(_)
Flat(chunks) == IF chunks = <<>> THEN <<>> ELSE Head(chunks) \o Flat(Tail(chunks))

\* The chunks sent so far are consecutive slices of the input, in input
\* order, each of the method's size except possibly the last of the input.
ChunksInOrder ==
    pc # "idle" =>
        /\ Flat(log) = SubSeq(frame.items, 1, frame.at)
        /\ \A k \in 1..Len(log) :
               /\ Len(log[k]) <= batch_size_of(frame.method)
               /\ Len(log[k]) >= 1
               /\ (k < Len(log) \/ frame.at < Len(frame.items))
                      => Len(log[k]) = batch_size_of(frame.method)

\* C39: the entities go out in consecutive chunks of at most 200, 200 and
\* 500 in input order and the per-entity results come back concatenated; a
\* failing chunk makes the method return, not raise, and the results of the
\* chunks already applied on the target reach the caller.
C39_ChunkedAndNeverRaises ==
    /\ ChunksInOrder
    /\ pc # "raised"
    /\ (pc = "returned" /\ ~frame.bare) =>
           results = [k \in 1..Len(Flat(log)) |-> hagen_result(Flat(log)[k])]

\* What holds of C39: the chunking, and the concatenated results of a call
\* whose every post was answered.
C39_ChunkedWhenAnswered ==
    /\ ChunksInOrder
    /\ (pc = "returned" /\ ~frame.bare) =>
           /\ frame.at = Len(frame.items)
           /\ results = [k \in 1..Len(frame.items) |-> hagen_result(frame.items[k])]

\* apply_suspend of 1001 ids: two chunks of 500 were applied on the target,
\* the third post failed, the method raised and returned nothing.
C39_ResultsLost ==
    /\ pc = "raised"
    /\ frame.method = "apply_suspend"
    /\ Len(log) = 2
    /\ Len(frame.results) = 2 * BATCH_SIZE_SUSPEND
    /\ results = <<>>

(***************************************************************************)
(* Part AJ.  One complete M365 run on one plugin instance, as the compute  *)
(* worker and the apply worker make it (gui/workers.py): get_manifest and  *)
(* compute_changeset, compute_group_diff, then apply_new, apply_changes    *)
(* and apply_suspend, then apply_group_changes with the changes of the     *)
(* diff.  The apply worker is given the ChangeSet of the compute worker    *)
(* as it is, group_changes included.  previous keeps the results of the    *)
(* account phases, results those of apply_group_changes.  Every student    *)
(* of the roster has an email, so no address is generated.                 *)
(***************************************************************************)
RunStudent(sid, first_name, email) ==
    [school_internal_id |-> sid,
     first_name |-> first_name,
     last_name |-> "Lee",
     class_name |-> "5A",
     email |-> email,
     photo_path |-> None,
     class_teacher_1 |-> "",
     class_teacher_2 |-> "",
     courses |-> <<>>]

\* Rosters: Ann, Bo or both, of class 5A.
RunRosters ==
    {<<RunStudent("s1", "Ann", "a@d")>>,
     <<RunStudent("s2", "Bo", "b@d")>>,
     <<RunStudent("s1", "Ann", "a@d"), RunStudent("s2", "Bo", "b@d")>>}

\* Directories: the account of Ann absent, linked or not yet linked, the
\* account of a leaver absent or present.
RunDirectories ==
    {a \o c :
        a \in {<<>>} \cup {<<User("u1", eid, "Ann", "5A", "a@d", TRUE)>> :
                              eid \in {"s1", ""}},
        c \in {<<>>, <<User("u4", "s9", "Bo", "5A", "z@d", TRUE)>>}}

\* Targets: the SuS group of 5A absent, empty or with a member; the KuK
\* group of 5A absent or empty.
RunTargets ==
    {a \o b :
        a \in {<<>>} \cup
              {<<Group("g1", group_name_of(DefaultConfig.group_sus_template, "5A"),
                       m, TRUE)>> : m \in {{}, {"u1"}, {"u4"}}},
        b \in {<<>>,
               <<Group("g2", group_name_of(DefaultConfig.group_kuk_template, "5A"),
                       {}, TRUE)>>}}

RunInit ==
    /\ pc = "run"
    /\ config = DefaultConfig
    /\ source \in RunRosters
    /\ all_students = source
    /\ teachers = <<>>
    /\ users \in RunDirectories
    /\ groups \in RunTargets
    /\ plugin = NewPlugin
    /\ manifest = <<>>
    /\ max_suspend_percentage = DefaultThreshold
    /\ changeset = None
    /\ changes = <<>>
    /\ previous = <<>>
    /\ results = <<>>
    /\ log = <<>>
    /\ frame = None
    /\ adapter = None
    /\ ClientUnused
    /\ GuiUnused

\* PluginComputeWorker.run: the ChangeSet from the manifest, then the group
\* diff on the same instance, whose user list get_manifest has just set.
RunCompute ==
    /\ pc = "run"
    /\ manifest' = get_manifest(users)
    /\ changeset' = compute_changeset(source, manifest', max_suspend_percentage)
    /\ LET run == compute_group_diff(
                      [plugin EXCEPT !.all_users = <<list_users(users)>>],
                      config, all_students, teachers, users, groups)
       IN  /\ changes' = run.changes
           /\ log' = log \o run.requests
           /\ plugin' = run.plugin
    /\ pc' = "computed"
    /\ UNCHANGED <<config, all_students, teachers, users, groups, results, frame>>
    /\ UNCHANGED <<adapter, source, max_suspend_percentage, previous>>
    /\ UNCHANGED <<clientVars, guiVars>>

\* The account phases of one apply: new, then changed, then suspended.
run_accounts(directory, cs, e_new, e_changed, e_suspended) ==
    LET created == apply_new(directory, cs.new, e_new)
        updated == apply_changes(created.users, cs.changed, e_changed)
        suspended == apply_suspend(updated.users, cs.suspended, e_suspended)
    IN  [users |-> suspended.users,
         results |-> created.results \o updated.results \o suspended.results]

\* PluginApplyWorker.run up to the group changes: apply is offered only for
\* a ChangeSet that does not require force; without group changes the run
\* is finished.
RunApplyAccounts ==
    /\ pc = "computed"
    /\ ~changeset.requires_force
    /\ \E e_new \in [1..Len(changeset.new) -> ApplyStatuses],
          e_changed \in [1..Len(changeset.changed) -> ApplyStatuses],
          e_suspended \in [1..Len(changeset.suspended) -> ApplyStatuses] :
        LET done == run_accounts(users, changeset, e_new, e_changed, e_suspended)
        IN  /\ users' = done.users
            /\ previous' = done.results
    /\ pc' = IF changes = <<>> THEN "done" ELSE "ready"
    /\ UNCHANGED <<config, all_students, teachers, groups, plugin, changes,
                   results, log, frame>>
    /\ UNCHANGED <<adapter, source, manifest, max_suspend_percentage, changeset>>
    /\ UNCHANGED <<clientVars, guiVars>>

RunNext ==
    \/ RunCompute
    \/ RunApplyAccounts
    \/ ApplyGroupChanges
    \/ CreateGroup
    \/ StartPolling
    \/ PollRound
    \/ PollRaises
    \/ PrepareMembers
    \/ SendBatch
    \/ BatchFails

RunSpec == RunInit /\ [][RunNext]_vars

(***************************************************************************)
(* C40.  Membership of the accounts a run creates.                         *)
(***************************************************************************)
\* Every call of the apply phase was answered well.
RunSucceeded ==
    /\ \A k \in 1..Len(previous) : previous[k].success
    /\ \A k \in 1..Len(results) : results[k].success

\* The accounts apply_new created for students of the ChangeSet: those of
\* the directory that the user list of the diff did not hold.
CreatedAccounts ==
    {i \in 1..Len(users) :
        /\ \A j \in 1..Len(plugin.all_users[1]) : plugin.all_users[1][j].id # users[i].id
        /\ \E k \in 1..Len(changeset.new) :
               changeset.new[k].school_internal_id = users[i].employeeId}

\* The account is a member of the SuS group of its class.
InClassGroup(u) ==
    \E g \in 1..Len(groups) :
        /\ groups[g].displayName =
               group_name_of(config.group_sus_template, u.department)
        /\ u.id \in groups[g].members

\* C40: after the diff and an apply in which every call succeeded (apply_new,
\* then apply_group_changes with all computed changes), every student whose
\* account apply_new created in the run is a member of the SuS group of
\* their class.
C40_CreatedAccountsAreMembers ==
    (pc = "done" /\ RunSucceeded) =>
        \A i \in CreatedAccounts : InClassGroup(users[i])

\* What is the case instead: no account created in the run is a member of
\* its class group when the run ends.
C40_CreatedAccountsNeverMembers ==
    pc = "done" => \A i \in CreatedAccounts : ~InClassGroup(users[i])

\* Bo's account was created, the SuS group of 5A was created and Ann, who
\* had an account, was added; every call succeeded; Bo is in no group.
C40_CreatedLeftOut ==
    /\ pc = "done"
    /\ RunSucceeded
    /\ Len(results) >= 2
    /\ \E i \in CreatedAccounts : users[i].employeeId = "s2" /\ ~InClassGroup(users[i])
    /\ \E i \in 1..Len(users) : users[i].id = "u1" /\ InClassGroup(users[i])

=============================================================================
